---- MODULE Spec2Model ----
(***************************************************************************)
(* 2mqjs as state machines.  Four parts share this module, each with its   *)
(* own specification:                                                      *)
(*   Spec         the task scheduler of src/src/tasks.ts                   *)
(*   SpecNoReset  the same without calls of resetTasks                     *)
(*   SpecPorts    the ports of src/src/ports.ts                            *)
(*   SpecPaths    setAtPath / deleteAtPath of store.worker.ts on one tree  *)
(*   SpecStore    the global store: store.ts on the main side, the        *)
(*                worker of store.worker.ts, the messages between them     *)
(*   SpecPersist  the same store with a persist option and its backends    *)
(*   SpecArrays   the same store under add and remove                      *)
(*   SpecBus      the Port Bus of src/src/ports.ts as the application      *)
(*                calls it                                                 *)
(*   SpecWorkers  the worker registry of src/src/workers.ts and the bus    *)
(*   SpecThrow    the bus with a callback that throws                      *)
(*   SpecLive     SpecNoReset with the event loop's fairness                  *)
(*   SpecChain    a registered chain of tasks, run in batches                 *)
(*   SpecCycle    tasks that depend on themselves or on each other           *)
(*   SpecReload   registered tasks, batches and resetTasks between them      *)
(*                                                                         *)
(* The main side is single threaded.  One action is one synchronous run    *)
(* of code: an API call (registerTask, runTasks, resetTasks) up to its     *)
(* first suspension, or one job of the microtask queue: a reaction of a    *)
(* promise the scheduler awaits.  The jobs run first in, first out.  The   *)
(* environment decides what a `when` function returns, when a waiting      *)
(* strategy fires and whether a `run` resolves or throws.                  *)
(***************************************************************************)
EXTENDS Integers, Sequences, FiniteSets, TLC

\* ------------------------------------------------------------- bounds
MaxApi == 4         \* calls application code makes (registerTask, runTasks, resetTasks)
MaxSlots == 4       \* executions of runSingle alive at the same time
MaxRetry == 2       \* the largest retry budget of a registered task
MaxOps == 3         \* path operations applied to one tree
MaxStoreApi == 4    \* calls application code makes on the store, and restarts
MaxBus == 4         \* calls application code makes on the Port Bus and the
                    \* worker registry, and messages workers post

Ids == {"a", "b", "c"}
Slots == 1 .. MaxSlots

\* An optional field (stage?, priority?) is << >> when absent, <<v>> when set.
None == << >>
Some(v) == <<v>>

\* Task (tasks.ts 42-57).  `when` is "none" (absent), "immediate", "fn" (a
\* function: true, false or a throw), "ext" (a strategy that waits for an
\* outside event and then resolves true).  `run` is how the effect behaves:
\* "ok" always resolves, "throw" always throws, "any" either.
Task(id, stage, priority, deps, when, retry, run) ==
  [id |-> id, stage |-> stage, priority |-> priority, deps |-> deps,
   when |-> when, retry |-> retry, run |-> run]

\* The task definitions application code registers.
TaskDefs ==
  { Task("a", Some("s1"), None,    <<"b">>,      "none",      0,        "ok"),
    Task("a", Some("s1"), Some(0), << >>,        "immediate", 0,        "any"),
    Task("b", Some("s2"), Some(0), <<"c">>,      "fn",        1,        "any"),
    Task("b", None,       Some(5), << >>,        "none",      MaxRetry, "throw"),
    Task("c", Some("s1"), Some(1), << >>,        "ext",       0,        "any"),
    Task("c", Some("s2"), None,    << >>,        "immediate", 0,        "ok") }

\* Port Bus channels tasks wait for.
Ports == {"x", "y"}
\* The names workers are registered under.
WorkerNames == {"w", "v"}

\* tasks.ts 305-320: the channels a `when` string names.  'port:<event>' is
\* when.slice(5); 'allPorts:<e1>,<e2>' is when.slice(9).split(',') trimmed.
PortsOf(w) ==
  IF w = "port:x" THEN <<"x">>
  ELSE IF w = "port:y" THEN <<"y">>
  ELSE IF w = "allPorts:x, y" THEN <<"x", "y">>
  ELSE << >>

\* The tasks application code registers in the Port Bus scenarios.
PortTaskDefs ==
  { Task("a", Some("s1"), None,    << >>,   "port:x",        0, "ok"),
    Task("b", Some("s1"), Some(1), <<"a">>, "allPorts:x, y", 0, "ok"),
    Task("c", Some("s1"), Some(2), << >>,   "port:y",        0, "any") }

\* The arguments runTasks is called with: omitted, '', and two stage names.
StageArgs == {None, Some(""), Some("s1"), Some("s2")}

VARIABLES
  tasks,     \* shared.tasks: the Map id -> Task, as its entries in insertion order
  done,      \* shared.done
  cache,     \* shared.cache: id -> slot of the in-flight promise, 0 when no key
  running,   \* shared.running
  ex,        \* the executions of runSingle's inner async function, by slot
  mq,        \* the promise reaction jobs queued as microtasks, first in first out
  call,      \* the latest accepted runTasks call and its Promise.all
  napi,      \* how many calls application code has made
  ncalls,    \* how many runTasks calls were accepted: the number of the batch
  lastApi,   \* the latest call of application code; "refused" is a runTasks call
             \* that threw 'runTasks already in progress'
  runLog,    \* the tasks of this batch in the order their first run invocation started
  ranOk,     \* ids whose run has resolved at least once
  ended,     \* per id, how its latest execution ended: the way out, the batch,
             \* the run invocations made and the task as it was executed
  started,   \* ids for which the latest runTasks call started an execution
  selected,  \* the latest runTasks call's sorted list of ids
  callStage, \* the latest runTasks call's argument
  lateDone,  \* ids of this batch added to done after the call had rejected
  last,      \* ports.ts shared.last: per channel the last payload, None before
             \* the first emit
  listeners, \* ports.ts shared.listeners: per channel the callbacks, in the
             \* order they were added
  tree,      \* store.worker.ts STATE before the latest path operation
  applied,   \* the latest path operation: its kind, path and value
  result,    \* STATE after it
  nops,      \* how many path operations were applied
  registry,  \* store.ts registry: the handle kept under the name of the store,
             \* None when there is no entry
  spawned,   \* how many workers defineGlobalStore has created
  ret,       \* the handle the latest defineGlobalStore call returned
  ready,     \* whether the promise `ready` of the handle is resolved
  snap,      \* ports.ts shared.last for the channel of the store, None before
             \* the first emit
  subsPath,  \* store.ts subsPath: the watchers of paths, in insertion order
  chanLog,   \* every state emitted on the channel of the store, in order
  sentLog,   \* every command posted to the worker, in order
  burst,     \* the run of updater calls in progress
  nstore,    \* how many calls application code has made on the store
  lastCall,  \* the latest of these calls and its argument
  localStorage, \* localStorage: key -> JSON text, None when there is no item
  inbox,     \* the messages posted to the worker and not handled yet
  outbox,    \* the messages the worker posted and the main side has not handled yet
  NAME,      \* store.worker.ts NAME
  State,     \* store.worker.ts STATE (a reserved word here)
  PERSIST,   \* store.worker.ts PERSIST, None for false
  phase,     \* where onInit is: "none" before init, "loading" at `await idbLoad`,
             \* "up" after it has posted ready
  appliedLog, \* every command the worker has handled with the state it made
  idbq,      \* the requests to IndexedDB that have not completed, oldest first
  persistTimer, \* store.worker.ts persistTimer: the id setTimeout returned last,
             \* None for null
  timeouts,  \* the timeouts of the worker that are still to fire, oldest
             \* first: the id of each and the state its `run` closes over
  idb,       \* IndexedDB object store 'stores': key -> JSON text
  saved,     \* per version, the state of the latest save IndexedDB completed
  lastIdb,   \* how the latest request to IndexedDB ended
  offs,      \* the unsubscribe functions onPort has returned, in order: the
             \* channel and callback each closes over, when it was made and
             \* when and how often it was called
  onceCalls, \* per wrapper oncePort has made, how often it has called its cb
  fx,        \* what the latest call on the bus did, in order: the callbacks it
             \* invoked and the messages it posted to workers
  lastBus,   \* the latest call on the bus or the registry
  nbus,      \* how many such calls were made
  workerRegistry, \* workers.ts registry: name -> worker, 0 without an entry
  workers,   \* ports.ts shared.workers, in insertion order
  wk,        \* every Worker object made so far
  regs       \* the registerWorker calls suspended at an await

vars == <<tasks, done, cache, running, ex, mq, call, napi, ncalls,
          lastApi, runLog, ranOk, ended, started, selected, callStage, lateDone,
          last, listeners, tree, applied, result, nops,
          registry, spawned, ret, ready, snap, subsPath, chanLog, sentLog,
          burst, nstore, lastCall, localStorage, inbox, outbox, NAME, State, PERSIST, phase,
          appliedLog, idbq, persistTimer, timeouts, idb, saved, lastIdb,
          offs, onceCalls, fx, lastBus, nbus, workerRegistry, workers, wk,
          regs>>

pathVars == <<tree, applied, result, nops>>
storeVars == <<registry, spawned, ret, ready, snap, subsPath, chanLog, sentLog,
               burst, nstore, lastCall, localStorage, inbox, outbox, NAME, State, PERSIST, phase,
               appliedLog, idbq, persistTimer, timeouts, idb, saved, lastIdb>>

busVars == <<offs, onceCalls, fx, lastBus, nbus, workerRegistry, workers, wk,
             regs>>

\* What the Port Bus never writes when a task waits on it, and what the task
\* scheduler never writes.
notPorts == <<pathVars, storeVars, busVars>>
notTasks == <<last, notPorts>>
\* What the path operations never write.
notPaths == <<tasks, done, cache, running, ex, mq, call, napi, ncalls,
              lastApi, runLog, ranOk, ended, started, selected, callStage,
              lateDone, last, listeners, storeVars, busVars>>
\* What the store never writes.
notStore == <<tasks, done, cache, running, ex, mq, call, napi, ncalls,
              lastApi, runLog, ranOk, ended, started, selected, callStage,
              lateDone, last, listeners, pathVars, busVars>>
\* What the Port Bus and the worker registry never write.
notBus == <<tasks, done, cache, running, ex, mq, call, napi, ncalls,
            lastApi, runLog, ranOk, ended, started, selected, callStage,
            lateDone, pathVars, storeVars>>

\* ------------------------------------------------------------- helpers

\* Who awaits a Promise.all: <<slot, batch>> is the execution in that slot
\* started by that batch, <<0, batch>> is the runTasks call of that batch.
Ref(s, b) == <<s, b>>

\* n counts the elements of the awaited Promise.all that are not fulfilled yet,
\* failed says that one of them rejected, stuck that one of them will stay
\* pending for ever; waiters are the callers of runSingle(id) suspended at
\* `await inflight` or `await existed`, in the order they got there; needs are
\* the channels whose promise of checkWhenCondition is still pending, adopted
\* says that the promise of checkWhenCondition follows the promise it returned.
FreeExec ==
  [pc |-> "free", id |-> "", t |-> None, n |-> 0, failed |-> FALSE,
   stuck |-> FALSE, attempts |-> 0, inv |-> 0, batch |-> 0, waiters |-> << >>,
   needs |-> {}, adopted |-> FALSE]

NeverEnded == [how |-> "none", batch |-> 0, inv |-> 0, t |-> None]

NoCall == [status |-> "none", n |-> 0, failed |-> FALSE, stuck |-> FALSE]

\* A job of the microtask queue.  k = "when": the continuation after
\* `await checkWhenCondition('immediate')`; "rs": runSingle continues after
\* `await inflight` (its promise settles); "el": the reaction of Promise.all to
\* one element; "cont": the continuation after `await Promise.all(...)`.
Job(k, w, ok) == [k |-> k, w |-> w, ok |-> ok]

HasTask(id) == \E i \in 1 .. Len(tasks) : tasks[i].id = id
TaskGet(id) == tasks[CHOOSE i \in 1 .. Len(tasks) : tasks[i].id = id]

\* priority ?? 0
Prio(t) == IF t.priority = None THEN 0 ELSE t.priority[1]

\* A runTasks argument is truthy when given and not the empty string.
Truthy(stage) == stage # None /\ stage[1] # ""

\* tasks.ts 135: filter(t => (stage ? t.stage === stage : true))
StageFilter(stage, t) == IF Truthy(stage) THEN t.stage = stage ELSE TRUE

\* tasks.ts 136: a stable sort, ascending (a.priority ?? 0) - (b.priority ?? 0)
RECURSIVE InsertByPriority(_, _)
InsertByPriority(sorted, t) ==
  IF sorted = << >> THEN <<t>>
  ELSE IF Prio(sorted[Len(sorted)]) <= Prio(t) THEN Append(sorted, t)
  ELSE Append(InsertByPriority(SubSeq(sorted, 1, Len(sorted) - 1), t),
              sorted[Len(sorted)])

RECURSIVE SortByPriority(_)
SortByPriority(list) ==
  IF list = << >> THEN << >>
  ELSE InsertByPriority(SortByPriority(SubSeq(list, 1, Len(list) - 1)),
                        list[Len(list)])

FreeSlots(e) == {s \in Slots : e[s].pc = "free"}
FreeSlot(e) == CHOOSE s \in FreeSlots(e) : \A r \in FreeSlots(e) : s <= r

\* The part of the state one synchronous run of scheduler code works on.
Cur ==
  [done |-> done, cache |-> cache, running |-> running, ex |-> ex, mq |-> mq,
   call |-> call, runLog |-> runLog, ranOk |-> ranOk, ended |-> ended,
   started |-> started, lateDone |-> lateDone, listeners |-> listeners,
   batch |-> ncalls]

Install(st) ==
  /\ done' = st.done
  /\ cache' = st.cache
  /\ running' = st.running
  /\ ex' = st.ex
  /\ mq' = st.mq
  /\ call' = st.call
  /\ runLog' = st.runLog
  /\ ranOk' = st.ranOk
  /\ ended' = st.ended
  /\ started' = st.started
  /\ lateDone' = st.lateDone
  /\ listeners' = st.listeners

Push(st, job) == [st EXCEPT !.mq = Append(@, job)]

\* The waiter is still suspended at its `await Promise.all(...)`.
Awaiting(st, w) ==
  IF w[1] = 0 THEN st.call.status = "pending" /\ w[2] = st.batch
  ELSE st.ex[w[1]].pc = "deps" /\ st.ex[w[1]].batch = w[2]

WaiterOf(st, w) == IF w[1] = 0 THEN st.call ELSE st.ex[w[1]]
SetWaiter(st, w, rec) ==
  IF w[1] = 0 THEN [st EXCEPT !.call = rec] ELSE [st EXCEPT !.ex[w[1]] = rec]

\* ------------------------------------------------- runSingle, step by step

\* tasks.ts 222-226: one pass of the retry loop up to `await t.run()`.
InvokeRun(st, s) ==
  [st EXCEPT !.ex[s].pc = "run",
             !.ex[s].inv = @ + 1,
             !.runLog = IF st.ex[s].inv = 0 /\ st.ex[s].batch = st.batch
                        THEN Append(@, st.ex[s].t) ELSE @]

\* ports.ts 59-70 as a waiting condition calls it: onPort(event, cb) adds the
\* callback to the channel's listeners and, the channel having a last value,
\* replays it at once: the callback resolves the promise of that channel.
OnPortNoReplay(st, s, p) ==
  [st EXCEPT !.listeners[p] = Append(@, Ref(s, st.ex[s].batch)),
             !.ex[s].needs = @ \cup {p}]

OnPort(st, s, p) ==
  [st EXCEPT !.listeners[p] = Append(@, Ref(s, st.ex[s].batch)),
             !.ex[s].needs = IF last[p] # None THEN @ ELSE @ \cup {p}]

RECURSIVE OnPorts(_, _, _)
OnPorts(st, s, ps) ==
  IF ps = << >> THEN st ELSE OnPorts(OnPort(st, s, Head(ps)), s, Tail(ps))

\* The jobs between the last channel's promise resolving and the continuation
\* after `await checkWhenCondition(...)`.  One channel: the promise the async
\* function returned resolves the function's promise, then the await continues.
\* allPorts: first the reaction of Promise.all to the element and the
\* `.then(() => true)` (tasks.ts 314-319).
WhenHops(w) == IF w = "allPorts:x, y" THEN "when4" ELSE "when2"

\* tasks.ts 305-320 and 212: checkWhenCondition('port:...' | 'allPorts:...') up
\* to `await`: a listener per channel; the async function returns a promise, so
\* its own promise adopts it in a job of its own.
AwaitPorts(st, s, ps) ==
  LET me == Ref(s, st.ex[s].batch)
      st1 == OnPorts([st EXCEPT !.ex[s].pc = "whenport"], s, ps)
      all == st1.ex[s].needs = {}
      multi == WhenHops(st.ex[s].t.when) = "when4"
      st2 == IF all /\ multi THEN Push(st1, Job("when4", me, TRUE)) ELSE st1
  IN Push(st2, Job("adopt", me, TRUE))

\* tasks.ts 205-213 and 222: `if (t.when)`, up to the await of the condition;
\* a task without `when` goes straight on to the retry loop.  The promise of
\* checkWhenCondition('immediate') is fulfilled already (tasks.ts 257): its
\* await queues the continuation.
EnterWhen(st, s) ==
  LET w == st.ex[s].t.when IN
  IF w = "none" THEN InvokeRun([st EXCEPT !.ex[s].attempts = st.ex[s].t.retry], s)
  ELSE IF w = "immediate"
       THEN Push([st EXCEPT !.ex[s].pc = "whenq"],
                 Job("when", Ref(s, st.ex[s].batch), TRUE))
  ELSE IF PortsOf(w) # << >> THEN AwaitPorts(st, s, PortsOf(w))
  ELSE [st EXCEPT !.ex[s].pc = "when"]

\* resolveInflight() / rejectInflight(error): the callers suspended at
\* `await inflight` are queued in the order they suspended.
RECURSIVE SettleInflight(_, _, _)
SettleInflight(st, waiters, ok) ==
  IF waiters = << >> THEN st
  ELSE SettleInflight(IF Awaiting(st, Head(waiters))
                      THEN Push(st, Job("rs", Head(waiters), ok)) ELSE st,
                      Tail(waiters), ok)

\* The in-flight promise is never settled: who awaits it awaits for ever.
RECURSIVE LeaveInflightPending(_, _)
LeaveInflightPending(st, waiters) ==
  IF waiters = << >> THEN st
  ELSE LeaveInflightPending(
         IF Awaiting(st, Head(waiters))
         THEN SetWaiter(st, Head(waiters),
                        [WaiterOf(st, Head(waiters)) EXCEPT !.stuck = TRUE])
         ELSE st,
         Tail(waiters))

\* tasks.ts 243-246: the inner function ends: `finally` deletes the in-flight
\* key of the id, whoever set it.  how = "resolved" (resolveInflight was called),
\* "rejected" (rejectInflight was called), "hung" (neither: the in-flight promise
\* stays pending for ever).  why says which way out was taken: "done", "skipped"
\* (condition false), "failed" (retries exhausted), "depfailed" (a dependency
\* rejected), "whenthrew" (the condition function threw).
Finish(st, s, how, why) ==
  LET e == st.ex[s]
      st1 == [st EXCEPT !.ex[s] = FreeExec,
                        !.cache[e.id] = 0,
                        !.ended[e.id] = [how |-> why, batch |-> e.batch,
                                         inv |-> e.inv, t |-> e.t]]
  IN IF how = "hung" THEN LeaveInflightPending(st1, e.waiters)
     ELSE SettleInflight(st1, e.waiters, how = "resolved")

AlreadyDoneIgnored(st, id) == FALSE

\* tasks.ts 170: if (done.has(id)) return
AlreadyDone(st, id) == id \in st.done

\* Promise.all over promises of which some are fulfilled already: their
\* reactions are queued in the order of the elements.
RECURSIVE QueueFulfilled(_, _, _)
QueueFulfilled(st, rs, w) ==
  IF rs = << >> THEN st
  ELSE QueueFulfilled(IF Head(rs) = "done" THEN Push(st, Job("el", w, TRUE))
                      ELSE st,
                      Tail(rs), w)

InFlightIgnored(st, id) == FALSE

\* tasks.ts 173-175: `existed`, the in-flight promise kept under the id
InFlight(st, id) == st.cache[id] # 0

\* The id without a task is resolved but not remembered.
NoTaskNotDone(st, id, w) ==
  [st |-> Push([st EXCEPT !.ended[id] = [how |-> "notask", batch |-> st.batch,
                                         inv |-> 0, t |-> None],
                          !.cache[id] = 0],
               Job("rs", w, TRUE)),
   r |-> "wait"]

\* tasks.ts 191-198 and 243-249: no task under the id: done.add(id),
\* resolveInflight(), `finally` deletes the key; the caller goes on after
\* `await inflight`.
NoTask(st, id, w) ==
  [st |-> Push([st EXCEPT !.done = @ \cup {id},
                          !.ended[id] = [how |-> "notask", batch |-> st.batch,
                                         inv |-> 0, t |-> None],
                          !.cache[id] = 0],
               Job("rs", w, TRUE)),
   r |-> "wait"]

\* The in-flight promise is not awaited: the call returns at once.
ExistedNotAwaited(st, id, w) == [st |-> st, r |-> "done"]

\* tasks.ts 175-178: `await existed; return`: the caller waits with the others
\* for the in-flight promise of the id.
AwaitExisted(st, id, w) ==
  [st |-> [st EXCEPT !.ex[st.cache[id]].waiters = Append(@, w)], r |-> "wait"]

\* tasks.ts 169-250, the synchronous part of runSingle(id) called on behalf of
\* the waiter w.  The result r is "done" when the returned promise is fulfilled
\* already and "wait" when the call is suspended at an await.
RECURSIVE runSingle(_, _, _), RunAll(_, _, _, _), AwaitAll(_, _, _)
runSingle(st, id, w) ==
  IF AlreadyDone(st, id) THEN [st |-> st, r |-> "done"]
  ELSE IF InFlight(st, id) THEN AwaitExisted(st, id, w)
  ELSE
    LET s == FreeSlot(st.ex)
        st1 == [st EXCEPT !.cache[id] = s, !.started = @ \cup {id}]
    IN
    IF ~HasTask(id) THEN NoTask(st1, id, w)
    ELSE
      LET t == TaskGet(id)
          st2 == [st1 EXCEPT !.ex[s] = [FreeExec EXCEPT !.pc = "deps", !.id = id,
                                                        !.t = t,
                                                        !.batch = st.batch]]
          st3 == IF Len(t.deps) > 0 THEN AwaitAll(st2, t.deps, Ref(s, st.batch))
                 ELSE EnterWhen(st2, s)
      IN [st |-> [st3 EXCEPT !.ex[s].waiters = Append(@, w)], r |-> "wait"]

\* ids.map(id => runSingle(id)): the calls in order; rs collects the results.
RunAll(st, ids, w, rs) ==
  IF ids = << >> THEN [st |-> st, rs |-> rs]
  ELSE LET r == runSingle(st, Head(ids), w)
       IN RunAll(r.st, Tail(ids), w, Append(rs, r.r))

\* tasks.ts 137 and 202: await Promise.all(ids.map(id => runSingle(id))), up to
\* the suspension of the waiter w.  Promise.all of no promise is fulfilled at
\* once.
AwaitAll(st, ids, w) ==
  LET d == RunAll(st, ids, w, << >>)
      st1 == SetWaiter(d.st, w, [WaiterOf(d.st, w) EXCEPT !.n = Len(ids)])
  IN IF ids = << >> THEN Push(st1, Job("cont", w, TRUE))
     ELSE QueueFulfilled(st1, d.rs, w)

\* The batch's rejection cancelling what is still in flight.
SettleCallCancels(st) ==
  [st EXCEPT !.call = [NoCall EXCEPT !.status = IF st.call.failed
                                                THEN "rejected" ELSE "resolved"],
             !.running = FALSE,
             !.ex = IF st.call.failed THEN [s \in Slots |-> FreeExec] ELSE @,
             !.mq = IF st.call.failed THEN << >> ELSE @,
             !.cache = IF st.call.failed THEN [id \in Ids |-> 0] ELSE @]

\* tasks.ts 137-140: the await of Promise.all continues or throws, finally
\* clears the flag, and the promise of runTasks settles.
SettleCall(st) ==
  [st EXCEPT !.call = [NoCall EXCEPT !.status = IF st.call.failed
                                                THEN "rejected" ELSE "resolved"],
             !.running = FALSE]

\* One job of the microtask queue.
RunJob(st, job) ==
  LET w == job.w IN
  IF job.k = "when"
  THEN IF st.ex[w[1]].pc = "whenq" /\ st.ex[w[1]].batch = w[2]
       THEN InvokeRun([st EXCEPT !.ex[w[1]].attempts = st.ex[w[1]].t.retry],
                      w[1])
       ELSE st
  ELSE IF job.k \in {"adopt", "when4", "when3", "when2"}
  THEN IF ~(st.ex[w[1]].pc = "whenport" /\ st.ex[w[1]].batch = w[2]) THEN st
       ELSE IF job.k = "adopt"
       THEN LET st1 == [st EXCEPT !.ex[w[1]].adopted = TRUE]
            IN IF st.ex[w[1]].needs = {}
                  /\ WhenHops(st.ex[w[1]].t.when) = "when2"
               THEN Push(st1, Job("when2", w, TRUE)) ELSE st1
       ELSE IF job.k = "when4" THEN Push(st, Job("when3", w, TRUE))
       ELSE IF job.k = "when3" THEN Push(st, Job("when2", w, TRUE))
       ELSE Push([st EXCEPT !.ex[w[1]].pc = "whenq"], Job("when", w, TRUE))
  ELSE IF ~Awaiting(st, w) THEN st
  ELSE IF job.k = "rs" THEN Push(st, Job("el", w, job.ok))
  ELSE IF job.k = "el"
  THEN LET r == WaiterOf(st, w) IN
       IF job.ok
       THEN LET st1 == SetWaiter(st, w, [r EXCEPT !.n = @ - 1])
            IN IF r.n = 1 /\ ~r.failed THEN Push(st1, Job("cont", w, TRUE))
               ELSE st1
       ELSE IF r.failed THEN st
            ELSE Push(SetWaiter(st, w, [r EXCEPT !.failed = TRUE]),
                      Job("cont", w, FALSE))
  ELSE \* "cont"
    IF w[1] = 0 THEN SettleCall(st)
    ELSE IF st.ex[w[1]].failed THEN Finish(st, w[1], "hung", "depfailed")
    ELSE EnterWhen(st, w[1])

\* ------------------------------------------------- values and paths
\* A value of the store: undefined, null, NaN, a number, a plain object or an
\* array.  id is the identity of an object or array (what === compares); f maps the own
\* property names to values; e holds the elements of an array, f of an array
\* its own properties that are not indices.
Undef == [t |-> "undef"]
Null == [t |-> "null"]
NaN == [t |-> "nan"]
Num(n) == [t |-> "num", v |-> n]
Obj(id, f) == [t |-> "obj", id |-> id, f |-> f]
Arr(id, e, f) == [t |-> "arr", id |-> id, e |-> e, f |-> f]
NoProps == << >>

\* Segments a path is made of, and what Number() makes of the digit ones.
Names == {"", "a", "b"}
Digits == {"0", "1", "2"}
Number(p) == CASE p = "0" -> 0 [] p = "1" -> 1 [] p = "2" -> 2
NumKey(i, p) == [n |-> TRUE, i |-> i, s |-> p]
StrKey(p) == [n |-> FALSE, i |-> 0, s |-> p]

\* store.worker.ts 112-114: path.split('.').map(p => /^\d+$/.test(p) ? Number(p) : p);
\* a path is given as the result of split('.').
splitPath(path) ==
  [j \in 1 .. Len(path) |->
     IF path[j] \in Digits THEN NumKey(Number(path[j]), path[j])
     ELSE StrKey(path[j])]

\* store.worker.ts 115-117
isObject(v) == v.t = "obj"
isArray(v) == v.t = "arr"

\* cur[key] of a value that is not undefined.
Prop(cur, key) ==
  CASE isObject(cur) ->
         IF key.s \in DOMAIN cur.f THEN cur.f[key.s] ELSE Undef
    [] isArray(cur) /\ key.n ->
         IF key.i < Len(cur.e) THEN cur.e[key.i + 1] ELSE Undef
    [] isArray(cur) /\ ~key.n ->
         IF key.s \in DOMAIN cur.f THEN cur.f[key.s] ELSE Undef
    [] OTHER -> Undef

\* cur == null
Nullish(v) == v = Undef \/ v = Null

\* cur?.[key]
OptProp(cur, key) == IF Nullish(cur) THEN Undef ELSE Prop(cur, key)

\* store.worker.ts 118-126
RECURSIVE Walk(_, _)
Walk(cur, parts) ==
  IF parts = << >> THEN cur
  ELSE IF Nullish(cur) THEN Undef
  ELSE Walk(Prop(cur, Head(parts)), Tail(parts))

getAtPath(obj, path) == Walk(obj, splitPath(path))

\* f with the property k set to v.
WithProp(f, k, v) == [x \in DOMAIN f \cup {k} |-> IF x = k THEN v ELSE f[x]]
WithoutProp(f, k) == [x \in DOMAIN f \ {k} |-> f[x]]

\* copy[key] = v; an index past the end leaves holes, which read undefined.
Assign(copy, key, v) ==
  IF isArray(copy) /\ key.n
  THEN [copy EXCEPT !.e =
          [j \in 1 .. (IF key.i + 1 > Len(@) THEN key.i + 1 ELSE Len(@)) |->
             IF j = key.i + 1 THEN v ELSE IF j <= Len(@) THEN @[j] ELSE Undef]]
  ELSE [copy EXCEPT !.f = WithProp(@, key.s, v)]

\* store.worker.ts 137-143: the copy of the node the path goes through, with
\* the identity nid.  slice() copies the elements of an array only.
CopySharesIdentity(cur, key, nid) ==
  IF isArray(cur) \/ isObject(cur) THEN cur
  ELSE IF key.n THEN Arr(nid, << >>, NoProps) ELSE Obj(nid, NoProps)

CopyNode(cur, key, nid) ==
  IF isArray(cur) THEN Arr(nid, cur.e, NoProps)
  ELSE IF isObject(cur) THEN Obj(nid, cur.f)
  ELSE IF key.n THEN Arr(nid, << >>, NoProps)
  ELSE Obj(nid, NoProps)

\* store.worker.ts 127-154.  The first loop copies the node at every depth of
\* the path and the second loop links each copy into the copy above it, so
\* the copy at depth i ends with the copy at depth i + 1 (the value at the
\* last depth) under its key; the copies get the identities nid, nid + 1, ...
RECURSIVE SetParts(_, _, _, _)
SetParts(cur, parts, value, nid) ==
  LET key == Head(parts)
      child == IF Len(parts) = 1 THEN value
               ELSE SetParts(OptProp(cur, key), Tail(parts), value, nid + 1)
  IN Assign(CopyNode(cur, key, nid), key, child)

setAtPath(root, path, value, nid) == SetParts(root, splitPath(path), value, nid)

\* parts.slice(0, -1).join('.'), again as the result of split('.')
ParentPath(parts) == [j \in 1 .. Len(parts) - 1 |-> parts[j].s]
\* The joined string is '', which is falsy: there is no segment, or a single
\* empty one (the path '.a' splits into '' and 'a').
IsEmptyString(path) == path = << >> \/ path = <<"">>

\* copy.splice(last, 1)
Splice(e, i) ==
  IF i >= Len(e) THEN e
  ELSE [j \in 1 .. Len(e) - 1 |-> IF j <= i THEN e[j] ELSE e[j + 1]]

\* store.worker.ts 155-166
deleteAtPath(root, path, nid) ==
  LET parts == splitPath(path)
      lastKey == parts[Len(parts)]
      parentPath == ParentPath(parts)
      parent == IF ~IsEmptyString(parentPath) THEN getAtPath(root, parentPath)
                ELSE root
      copy == IF isArray(parent) THEN Arr(nid, parent.e, NoProps)
              ELSE Obj(nid, IF isObject(parent) THEN parent.f ELSE NoProps)
      cut == IF isArray(copy) /\ lastKey.n
             THEN [copy EXCEPT !.e = Splice(@, lastKey.i)]
             ELSE [copy EXCEPT !.f = WithoutProp(@, lastKey.s)]
  IN IF Nullish(parent) THEN root
     ELSE IF ~IsEmptyString(parentPath)
     THEN setAtPath(root, parentPath, cut, nid + 1)
     ELSE cut

\* The property names in the order Canon numbers them.
PropOrder == <<"", "0", "1", "2", "a", "b">>

\* The identities of the objects and arrays of a value.
RECURSIVE IdsOf(_)
IdsOf(v) ==
  CASE isObject(v) -> {v.id} \cup UNION {IdsOf(v.f[k]) : k \in DOMAIN v.f}
    [] isArray(v) -> {v.id} \cup UNION {IdsOf(v.e[j]) : j \in 1 .. Len(v.e)}
                            \cup UNION {IdsOf(v.f[k]) : k \in DOMAIN v.f}
    [] OTHER -> {}

\* The same value with its objects and arrays numbered n + 1, n + 2, ... from
\* the root down: which identities are equal is all that === can tell, so the
\* tree is kept under these numbers between two operations.
RECURSIVE Canon(_, _), CanonProps(_, _, _, _), CanonElems(_, _, _, _)
Canon(v, n) ==
  CASE isObject(v) ->
         LET r == CanonProps(v.f, PropOrder, NoProps, n + 1)
         IN [v |-> Obj(n + 1, r.f), n |-> r.n]
    [] isArray(v) ->
         LET r1 == CanonElems(v.e, 1, << >>, n + 1)
             r2 == CanonProps(v.f, PropOrder, NoProps, r1.n)
         IN [v |-> Arr(n + 1, r1.e, r2.f), n |-> r2.n]
    [] OTHER -> [v |-> v, n |-> n]
CanonProps(f, order, acc, n) ==
  IF order = << >> THEN [f |-> acc, n |-> n]
  ELSE IF Head(order) \notin DOMAIN f THEN CanonProps(f, Tail(order), acc, n)
  ELSE LET r == Canon(f[Head(order)], n)
       IN CanonProps(f, Tail(order), WithProp(acc, Head(order), r.v), r.n)
CanonElems(e, j, acc, n) ==
  IF j > Len(e) THEN [e |-> acc, n |-> n]
  ELSE LET r == Canon(e[j], n)
       IN CanonElems(e, j + 1, Append(acc, r.v), r.n)

\* A JSON tree: no array carries a property that is not an index.
RECURSIVE IsJson(_)
IsJson(v) ==
  CASE isObject(v) -> \A k \in DOMAIN v.f : IsJson(v.f[k])
    [] isArray(v) -> /\ DOMAIN v.f = {}
                     /\ \A j \in 1 .. Len(v.e) : IsJson(v.e[j])
    [] OTHER -> TRUE

\* The paths and values the operations are called with.  A value arrives in
\* the worker as a structured clone, so it shares no identity with STATE.
PathArgs ==
  {<<"a">>, <<"b">>, <<"1">>, <<"a", "b">>, <<"a", "0">>, <<"a", "1">>,
   <<"b", "a", "0">>, <<"", "a">>}
ValueArgs(id) == {Num(1), Num(2), Arr(id, <<Num(1), Num(2)>>, NoProps)}
NoOp == [k |-> "none", path |-> << >>, value |-> Undef]

\* ------------------------------------------------- the store: values
\* postMessage hands over a structured clone: the same content under
\* identities no earlier object has.  g numbers the clone.
RECURSIVE Clone(_, _)
Clone(v, g) ==
  CASE isObject(v) -> Obj(g, [k \in DOMAIN v.f |-> Clone(v.f[k], g)])
    [] isArray(v) -> Arr(g, [j \in 1 .. Len(v.e) |-> Clone(v.e[j], g)],
                         [k \in DOMAIN v.f |-> Clone(v.f[k], g)])
    [] OTHER -> v

\* The content of a value, whatever its identities.
Content(v) == Clone(v, 0)

\* a === b on the main side, for values read at the same path of snapshots:
\* two objects are the same object only inside one clone; NaN equals nothing.
StrictEq(a, b) == a = b /\ a # NaN

\* store.worker.ts 167-176
RECURSIVE deepMerge(_, _)
deepMerge(a, b) ==
  IF ~isObject(a) \/ ~isObject(b) THEN (IF Nullish(b) THEN a ELSE b)
  ELSE Obj(0, [k \in DOMAIN a.f \cup DOMAIN b.f |->
                 IF k \notin DOMAIN b.f THEN a.f[k]
                 ELSE IF k \in DOMAIN a.f /\ isObject(a.f[k]) /\ isObject(b.f[k])
                 THEN deepMerge(a.f[k], b.f[k])
                 ELSE b.f[k]])

\* store.ts 360-368: here a null or undefined value of b keeps the value of a.
RECURSIVE deepMergeMain(_, _)
deepMergeMain(a, b) ==
  IF ~isObject(a) \/ ~isObject(b) THEN (IF Nullish(b) THEN a ELSE b)
  ELSE Obj(0, [k \in DOMAIN a.f \cup DOMAIN b.f |->
                 IF k \notin DOMAIN b.f THEN a.f[k]
                 ELSE deepMergeMain(IF k \in DOMAIN a.f THEN a.f[k] ELSE Undef,
                                    b.f[k])])

\* JSON.stringify followed by JSON.parse: a property whose value is undefined
\* is left out, undefined and NaN inside an array and NaN anywhere become
\* null, an array keeps its elements only.  A JSON text is held as the tree
\* JSON.parse makes of it.
RECURSIVE Json(_)
Json(v) ==
  CASE isObject(v) ->
         Obj(0, [k \in {x \in DOMAIN v.f : v.f[x] # Undef} |-> Json(v.f[k])])
    [] isArray(v) ->
         Arr(0, [j \in 1 .. Len(v.e) |->
                   IF v.e[j] = Undef THEN Null ELSE Json(v.e[j])], NoProps)
    [] v = NaN -> Null
    [] OTHER -> v

\* store.worker.ts 180-184 and store.ts 375-379: `2mqjs:${name}` followed by
\* `:v${version}` when the version is truthy; no namespace is configured.
storageKeyFor(p, name) == [name |-> name, v |-> p.version]

PayloadWithoutVersion(p, toSave) ==
  Json(Obj(0, [k \in {"data"} |-> toSave]))

\* store.worker.ts 190: JSON.stringify(p.version ? { __v, data } : { data })
Payload(p, toSave) ==
  Json(Obj(0, IF p.version # 0
              THEN [k \in {"__v", "data"} |->
                      IF k = "__v" THEN Num(p.version) ELSE toSave]
              ELSE [k \in {"data"} |-> toSave]))

\* store.worker.ts 252-259: what idbLoad returns for the record under the key,
\* null when there is none or its version is another one.
ParseRecord(p, json) ==
  IF json = None THEN Null
  ELSE LET parsed == json[1]
           v == Prop(parsed, StrKey("__v"))
           data == Prop(parsed, StrKey("data"))
       IN IF p.version # 0 /\ v # Num(p.version) THEN Null
          ELSE IF Nullish(data) THEN Null ELSE data

\* The arguments the store is called with.
SetArgs ==
  {[path |-> <<"a">>, value |-> Num(5)],
   [path |-> <<"b", "a">>, value |-> Num(1)]}
MergeArgs == {Obj(0, [k \in {"a"} |-> Num(7)])}
DelArgs == {<<"b">>}
UpdateArgs == {<<"a">>}
WatchArgs == {<<"a">>, <<"b">>}
PersistSetArgs ==
  {[path |-> <<"a">>, value |-> Num(5)], [path |-> <<"a">>, value |-> Num(6)]}
\* add and remove: a number the array holds, one it does not hold, an object.
ObjItem == Obj(0, [k \in {"a"} |-> Num(1)])
AddArgs == {[path |-> <<"b">>, item |-> i] : i \in {Num(1), Num(3), ObjItem}}
RemoveArgs ==
  {[path |-> p, item |-> Num(1)] :
     p \in {<<"b">>, <<"a">>, <<"a", "b">>, <<"b", "a">>}}

\* ------------------------------------------------- the store: worker
\* The options of defineGlobalStore this model uses.  persist is None for
\* false, or what normalizePersist (store.ts 337-348) makes of it; version 0
\* stands for none.  No keys and no namespace are configured.
StoreName == "app"
Persist(backend, version, debounceMs) ==
  Some([backend |-> backend, version |-> version, debounceMs |-> debounceMs])
Opts(initial, persist) ==
  [name |-> StoreName, initial |-> initial, persist |-> persist]
StoreOpts ==
  {Opts(Obj(0, [k \in {"a", "b"} |->
                  IF k = "a" THEN Num(0) ELSE Obj(0, [j \in {"a"} |-> Num(0)])]),
        None),
   Opts(Obj(0, [k \in {"a"} |-> Num(1)]), None)}
\* Stores with an array, a scalar, an object and a missing key.
ArrayOpts ==
  {Opts(Obj(0, [k \in {"a", "b"} |->
                  IF k = "a" THEN Num(0)
                  ELSE Arr(0, <<Num(1), Num(2)>>, NoProps)]),
        None),
   Opts(Obj(0, [k \in {"a"} |-> Obj(0, [j \in {"b"} |-> Num(0)])]), None)}
Versions == {0, 1, 2}
PersistOpts ==
  {Opts(Obj(0, [k \in {"a"} |-> Num(0)]), p) :
     p \in {Persist("indexedDB", 1, 0), Persist("indexedDB", 2, 0),
            Persist("indexedDB", 1, 50), Persist("auto", 0, 0),
            Persist("localStorage", 1, 0)}}
StorageKeys == {[name |-> StoreName, v |-> v] : v \in Versions}

\* Messages to the worker (store.worker.ts 17-24) and from it (26-30).  cause
\* tells what made the worker post a state: the init, a get, or the command
\* with that number.
InitMsg(name, initial, persist) ==
  [type |-> "init", name |-> name, initial |-> initial, persist |-> persist]
GetMsg == [type |-> "get"]
SetMsg(path, value) == [type |-> "op:set", path |-> path, value |-> value]
MergeMsg(patch) == [type |-> "op:merge", patch |-> patch]
DelMsg(path) == [type |-> "op:del", path |-> path]
AddMsg(path, item) == [type |-> "op:add", path |-> path, item |-> item]
RemoveMsg(path, item) == [type |-> "op:remove", path |-> path, item |-> item]
Cause(k, i) == [k |-> k, i |-> i]
StateMsg(state, cause) == [type |-> "state", state |-> state, cause |-> cause]
ReadyMsg == [type |-> "ready"]
LsSetMsg(storageKey, json) ==
  [type |-> "persist:ls:set", storageKey |-> storageKey, json |-> json]

\* The worker's side as one record, so that a handler is a function of it.
Wk ==
  [NAME |-> NAME, State |-> State, PERSIST |-> PERSIST, phase |-> phase,
   outbox |-> outbox, idbq |-> idbq, persistTimer |-> persistTimer,
   timeouts |-> timeouts,
   appliedLog |-> appliedLog]

InstallWk(w) ==
  /\ NAME' = w.NAME
  /\ State' = w.State
  /\ PERSIST' = w.PERSIST
  /\ phase' = w.phase
  /\ outbox' = w.outbox
  /\ idbq' = w.idbq
  /\ persistTimer' = w.persistTimer
  /\ timeouts' = w.timeouts
  /\ appliedLog' = w.appliedLog

PostCoalesced(w, m) ==
  [w EXCEPT !.outbox =
     IF m.type = "state" /\ @ # << >> /\ @[Len(@)].type = "state"
     THEN Append(SubSeq(@, 1, Len(@) - 1), m) ELSE Append(@, m)]

\* store.worker.ts 84-86
Post(w, m) == [w EXCEPT !.outbox = Append(@, m)]

\* store.worker.ts 188-199: run().  The payload is made when run is called;
\* idbSave completes later, in the order of the requests.
PersistRun(w, state) ==
  LET p == w.PERSIST[1]
      json == Payload(p, state)
  IN IF p.backend \in {"indexedDB", "auto"}
     THEN [w EXCEPT !.idbq =
             Append(@, [k |-> "save", key |-> storageKeyFor(p, w.NAME),
                        json |-> json, version |-> p.version,
                        state |-> state])]
     ELSE Post(w, LsSetMsg(storageKeyFor(p, w.NAME), json))

\* clearTimeout(id): the timeout with that id, if it is still to fire, is
\* cancelled; null and the id of a timeout that has fired cancel nothing.
clearTimeout(ts, id) ==
  SelectSeq(ts, LAMBDA t : id = None \/ t.id # id[1])

\* setTimeout returns the ids 1, 2, ... in the order of the calls.
NextTimeoutId(id) == IF id = None THEN 1 ELSE id[1] + 1

\* A debounce that does not cancel the pending timeout.
persistSaveKeepsPending(w, state) ==
  IF w.PERSIST[1].debounceMs > 0
  THEN LET id == NextTimeoutId(w.persistTimer)
       IN [w EXCEPT !.timeouts = Append(@, [id |-> id, state |-> state]),
                    !.persistTimer = Some(id)]
  ELSE PersistRun(w, state)

\* store.worker.ts 187-206
persistSave(w, state) ==
  IF w.PERSIST[1].debounceMs > 0
  THEN LET id == NextTimeoutId(w.persistTimer)
       IN [w EXCEPT !.timeouts = Append(clearTimeout(@, w.persistTimer),
                                        [id |-> id, state |-> state]),
                    !.persistTimer = Some(id)]
  ELSE PersistRun(w, state)

\* store.worker.ts 105-108
postState(w, cause) ==
  LET w1 == Post(w, StateMsg(w.State, cause))
  IN IF w.PERSIST # None THEN persistSave(w1, w1.State) ELSE w1

\* msg.initial ?? {}
OrEmpty(v) == IF Nullish(v) THEN Obj(0, NoProps) ELSE v

InitDoneReadyFirst(w) ==
  [Post(Post(w, ReadyMsg), StateMsg(w.State, Cause("init", 0)))
   EXCEPT !.phase = "up"]

\* store.worker.ts 101-102
InitDone(w) ==
  [Post(Post(w, StateMsg(w.State, Cause("init", 0))), ReadyMsg)
   EXCEPT !.phase = "up"]

\* store.worker.ts 88-99, up to `await idbLoad(NAME, PERSIST)`
onInit(w, msg) ==
  LET w1 == [w EXCEPT !.NAME = msg.name, !.PERSIST = msg.persist,
                      !.State = OrEmpty(msg.initial)]
  IN IF msg.persist # None /\ msg.persist[1].backend \in {"auto", "indexedDB"}
     THEN [w1 EXCEPT !.phase = "loading",
                     !.idbq = Append(@, [k |-> "load",
                                         key |-> storageKeyFor(msg.persist[1], msg.name),
                                         json |-> Undef, version |-> 0,
                                         state |-> Undef])]
     ELSE InitDone(w1)

\* The identities of the worker's objects are not told apart: what leaves the
\* worker is a clone.
Applied(w, msg, state) ==
  LET w1 == [w EXCEPT !.State = Content(state),
                      !.appliedLog = Append(@, [cmd |-> msg,
                                                state |-> Content(state)])]
  IN postState(w1, Cause("cmd", Len(w1.appliedLog)))

\* x === msg.item in the worker (57, 68).  msg.item is the clone the message
\* delivered: when it is an object or an array it is an object nothing in
\* STATE is identical to.
SameItem(x, item) == ~isObject(item) /\ ~isArray(item) /\ StrictEq(x, item)
Some_(e, item) == \E j \in 1 .. Len(e) : SameItem(e[j], item)
\* arr.filter(x => !pred(x)) with pred = x => x === msg.item
RECURSIVE Filter(_, _)
Filter(e, item) ==
  IF e = << >> THEN << >>
  ELSE IF SameItem(Head(e), item) THEN Filter(Tail(e), item)
  ELSE <<Head(e)>> \o Filter(Tail(e), item)

\* store.worker.ts 54-62
opAdd(state, path, item) ==
  LET arr == getAtPath(state, path)
      next == IF isArray(arr)
              THEN IF Some_(arr.e, item) THEN arr
                   ELSE Arr(0, Append(arr.e, item), NoProps)
              ELSE Arr(0, <<item>>, NoProps)
  IN setAtPath(state, path, next, 0)

\* store.worker.ts 63-73, msg.item is not a function
opRemove(state, path, item) ==
  LET arr == getAtPath(state, path)
      next == IF isArray(arr) THEN Arr(0, Filter(arr.e, item), NoProps)
              ELSE arr
  IN setAtPath(state, path, next, 0)

\* store.worker.ts 36-82.  No case throws on the values of this model, so the
\* catch (79-81) posts no 'error'.
Handle(w, msg) ==
  CASE msg.type = "init" -> onInit(w, msg)
    [] msg.type = "get" -> postState(w, Cause("get", 0))
    [] msg.type = "op:set" ->
         Applied(w, msg, setAtPath(w.State, msg.path, msg.value, 0))
    [] msg.type = "op:merge" -> Applied(w, msg, deepMerge(w.State, msg.patch))
    [] msg.type = "op:add" ->
         Applied(w, msg, opAdd(w.State, msg.path, msg.item))
    [] msg.type = "op:remove" ->
         Applied(w, msg, opRemove(w.State, msg.path, msg.item))
    [] msg.type = "op:del" -> Applied(w, msg, deleteAtPath(w.State, msg.path, 0))

\* A call of the application on the store.
Call(f, arg) == [f |-> f, arg |-> arg]
NoBurst == [n |-> 0, base |-> Undef, path |-> << >>, open |-> FALSE]

\* No store is defined.
MainIdle ==
  /\ registry = None /\ ret = 0 /\ ready = FALSE /\ snap = None
  /\ subsPath = << >> /\ chanLog = << >> /\ sentLog = << >>
  /\ burst = NoBurst
WorkerIdle ==
  /\ inbox = << >> /\ outbox = << >> /\ NAME = "store"
  /\ State = Obj(0, NoProps) /\ PERSIST = None /\ phase = "none"
  /\ appliedLog = << >> /\ idbq = << >> /\ persistTimer = None
  /\ timeouts = << >>
  /\ lastIdb = "none"

\* ------------------------------------------------------------- actions
\* The module objects as they are made, but for the registry of tasks.
Made ==
  /\ done = {}
  /\ cache = [id \in Ids |-> 0]
  /\ running = FALSE
  /\ ex = [s \in Slots |-> FreeExec]
  /\ mq = << >>
  /\ call = NoCall
  /\ napi = 0 /\ ncalls = 0 /\ lastApi = "none"
  /\ runLog = << >>
  /\ ranOk = {}
  /\ ended = [id \in Ids |-> NeverEnded]
  /\ started = {}
  /\ selected = << >>
  /\ callStage = None
  /\ lateDone = {}
  /\ last = [p \in Ports |-> None]
  /\ listeners = [p \in Ports |-> << >>]
  /\ tree = Obj(1, NoProps)
  /\ applied = NoOp
  /\ result = Obj(1, NoProps)
  /\ nops = 0
  /\ MainIdle /\ WorkerIdle
  /\ spawned = 0 /\ nstore = 0 /\ lastCall = Call("none", None)
  /\ localStorage = [k \in StorageKeys |-> None]
  /\ idb = [k \in StorageKeys |-> None]
  /\ saved = [v \in Versions |-> None]
  /\ offs = << >> /\ onceCalls = << >> /\ fx = << >>
  /\ lastBus = [op |-> "none"] /\ nbus = 0
  /\ workerRegistry = [n \in WorkerNames |-> 0]
  /\ workers = << >> /\ wk = << >> /\ regs = << >>

Init == tasks = << >> /\ Made

\* tasks.ts 118-120: tasks.set(task.id, task) keeps the place of an existing key.
registerTask(task) ==
  /\ napi < MaxApi
  /\ napi' = napi + 1
  /\ tasks' = IF HasTask(task.id)
              THEN [i \in 1 .. Len(tasks) |->
                      IF tasks[i].id = task.id THEN task ELSE tasks[i]]
              ELSE Append(tasks, task)
  /\ lastApi' = "registerTask"
  /\ UNCHANGED <<done, cache, running, ex, mq, call, ncalls,
                 runLog, ranOk, ended, started, selected, callStage, lateDone>>
  /\ UNCHANGED <<listeners, notTasks>>

\* tasks.ts 135-136
SelectList(stage) ==
  SortByPriority(SelectSeq(tasks, LAMBDA t : StageFilter(stage, t)))

\* tasks.ts 131-137: an accepted call, up to `await Promise.all(...)`.
runTasks(stage) ==
  /\ ~running
  /\ napi < MaxApi
  /\ napi' = napi + 1
  /\ Cardinality(FreeSlots(ex)) >=
       Cardinality({id \in Ids : id \notin done /\ cache[id] = 0})
  /\ LET list == SelectList(stage)
         ids == [i \in 1 .. Len(list) |-> list[i].id]
         st0 == [Cur EXCEPT !.batch = ncalls + 1, !.runLog = << >>,
                            !.started = {}, !.lateDone = {},
                            !.running = TRUE,
                            !.call = [NoCall EXCEPT !.status = "pending"]]
     IN /\ Install(AwaitAll(st0, ids, Ref(0, ncalls + 1)))
        /\ selected' = ids
  /\ ncalls' = ncalls + 1
  /\ callStage' = stage
  /\ lastApi' = "runTasks"
  /\ UNCHANGED <<tasks, notTasks>>

\* The check moved inside the try block: finally clears the flag.
runTasksBusyInsideTry(stage) ==
  /\ running
  /\ napi < MaxApi
  /\ napi' = napi + 1
  /\ lastApi' = "refused"
  /\ running' = FALSE
  /\ UNCHANGED <<tasks, done, cache, ex, mq, call, ncalls,
                 runLog, ranOk, ended, started, selected, callStage,
                 lateDone, listeners, notTasks>>

\* tasks.ts 132: `if (shared.running) throw` before the try block.
runTasksBusy(stage) ==
  /\ running
  /\ napi < MaxApi
  /\ napi' = napi + 1
  /\ lastApi' = "refused"
  /\ UNCHANGED <<tasks, done, cache, running, ex, mq, call, ncalls,
                 runLog, ranOk, ended, started, selected, callStage,
                 lateDone, listeners, notTasks>>

\* tasks.ts 147-150
resetTasks ==
  /\ napi < MaxApi
  /\ napi' = napi + 1
  /\ done' = {}
  /\ cache' = [id \in Ids |-> 0]
  /\ lastApi' = "resetTasks"
  /\ UNCHANGED <<tasks, running, ex, mq, call, ncalls, runLog,
                 ranOk, ended, started, selected, callStage, lateDone,
                 listeners, notTasks>>

Rest ==
  UNCHANGED <<tasks, napi, ncalls, lastApi, selected, callStage, notTasks>>

\* The event loop runs the oldest job of the microtask queue.
Microtask ==
  /\ mq # << >>
  /\ Install(RunJob([Cur EXCEPT !.mq = Tail(mq)], Head(mq)))
  /\ Rest

\* What a pending condition can come to: a function returns true or false or
\* throws (tasks.ts 208); a waiting strategy resolves true (tasks.ts 259-372).
WhenOutcomes(w) == IF w = "fn" THEN {"true", "false", "throw"} ELSE {"true"}

\* A false condition handled like a success: done.add before resolveInflight.
WhenSettlesMarksDone(s, v) ==
  /\ ex[s].pc = "when"
  /\ v \in WhenOutcomes(ex[s].t.when)
  /\ Install(IF v = "true"
             THEN InvokeRun([Cur EXCEPT !.ex[s].attempts = ex[s].t.retry], s)
             ELSE IF v = "false"
             THEN Finish([Cur EXCEPT !.done = @ \cup {ex[s].id}], s,
                         "resolved", "skipped")
             ELSE Finish(Cur, s, "hung", "whenthrew"))
  /\ Rest

\* tasks.ts 208-222: the awaited condition settles.
WhenSettles(s, v) ==
  /\ ex[s].pc = "when"
  /\ v \in WhenOutcomes(ex[s].t.when)
  /\ Install(IF v = "true"
             THEN InvokeRun([Cur EXCEPT !.ex[s].attempts = ex[s].t.retry], s)
             ELSE IF v = "false" THEN Finish(Cur, s, "resolved", "skipped")
             ELSE Finish(Cur, s, "hung", "whenthrew"))
  /\ Rest

\* tasks.ts 226-230: run resolved: done.add, resolveInflight, break.
RunResolves(s) ==
  /\ ex[s].pc = "run"
  /\ ex[s].t.run \in {"ok", "any"}
  /\ LET id == ex[s].id
         late == call.status = "rejected" /\ ex[s].batch = ncalls
         st == [Cur EXCEPT !.done = @ \cup {id}, !.ranOk = @ \cup {id},
                           !.lateDone = IF late THEN @ \cup {id} ELSE @]
     IN Install(Finish(st, s, "resolved", "done"))
  /\ Rest

\* tasks.ts 231-241: run threw: retry after the backoff while attempts > 0,
\* else rejectInflight and rethrow.
RunThrows(s) ==
  /\ ex[s].pc = "run"
  /\ ex[s].t.run \in {"throw", "any"}
  /\ Install(IF ex[s].attempts > 0
             THEN [Cur EXCEPT !.ex[s].attempts = @ - 1, !.ex[s].pc = "backoff"]
             ELSE Finish(Cur, s, "rejected", "failed"))
  /\ Rest

\* tasks.ts 235-236, 223-226: the backoff timer fired, a macrotask (the
\* microtask queue is empty): continue, run again.
BackoffElapsed(s) ==
  /\ ex[s].pc = "backoff"
  /\ mq = << >>
  /\ Install(InvokeRun(Cur, s))
  /\ Rest

\* The callback of a waiting condition: resolve(true) on the promise of the
\* channel (tasks.ts 308, 317); the last channel resolving lets the condition
\* resolve.
PortCallback(st, w, p) ==
  LET s == w[1] IN
  IF ~(st.ex[s].pc = "whenport" /\ st.ex[s].batch = w[2] /\ p \in st.ex[s].needs)
  THEN st
  ELSE LET st1 == [st EXCEPT !.ex[s].needs = @ \ {p}]
           hops == WhenHops(st.ex[s].t.when)
       IN IF st1.ex[s].needs # {} THEN st1
          ELSE IF hops = "when4" \/ st.ex[s].adopted
          THEN Push(st1, Job(hops, w, TRUE))
          ELSE st1

\* ports.ts 55: listeners.get(port)?.forEach(cb => cb(payload))
RECURSIVE ForEachListener(_, _, _)
ForEachListener(st, ls, p) ==
  IF ls = << >> THEN st
  ELSE ForEachListener(PortCallback(st, Head(ls), p), Tail(ls), p)

\* ports.ts 52-57: emitPort(port, payload) by application code or a worker.
emitPort(p) ==
  /\ last' = [last EXCEPT ![p] = Some(0)]
  /\ Install(ForEachListener(Cur, listeners[p], p))
  /\ UNCHANGED <<tasks, napi, ncalls, lastApi, selected, callStage, notPorts>>

Next ==
  \/ \E task \in TaskDefs : registerTask(task)
  \/ \E stage \in StageArgs : runTasks(stage)
  \/ \E stage \in StageArgs : runTasksBusy(stage)
  \/ resetTasks
  \/ Microtask
  \/ \E s \in Slots, v \in {"true", "false", "throw"} : WhenSettles(s, v)
  \/ \E s \in Slots : RunResolves(s)
  \/ \E s \in Slots : RunThrows(s)
  \/ \E s \in Slots : BackoffElapsed(s)

Spec == Init /\ [][Next]_vars

\* The scheduler when the application never calls resetTasks.
NextNoReset ==
  \/ \E task \in TaskDefs : registerTask(task)
  \/ \E stage \in StageArgs : runTasks(stage)
  \/ \E stage \in StageArgs : runTasksBusy(stage)
  \/ Microtask
  \/ \E s \in Slots, v \in {"true", "false", "throw"} : WhenSettles(s, v)
  \/ \E s \in Slots : RunResolves(s)
  \/ \E s \in Slots : RunThrows(s)
  \/ \E s \in Slots : BackoffElapsed(s)

SpecNoReset == Init /\ [][NextNoReset]_vars

\* The scheduler with tasks that depend on themselves or on each other.
CycleDefs ==
  { Task("a", Some("s1"), None, <<"a">>,      "none", 0, "ok"),
    Task("a", Some("s1"), None, << >>,        "none", 0, "ok"),
    Task("a", Some("s1"), None, <<"b">>,      "none", 0, "ok"),
    Task("b", Some("s2"), None, <<"a", "c">>, "none", 0, "any"),
    Task("c", Some("s1"), None, << >>,        "ext",  0, "any") }

NextCycle ==
  \/ \E task \in CycleDefs : registerTask(task)
  \/ \E stage \in StageArgs : runTasks(stage)
  \/ \E stage \in StageArgs : runTasksBusy(stage)
  \/ Microtask
  \/ \E s \in Slots : WhenSettles(s, "true")
  \/ \E s \in Slots : RunResolves(s)
  \/ \E s \in Slots : RunThrows(s)

SpecCycle == Init /\ [][NextCycle]_vars

\* An application that has registered a chain of tasks when its modules were
\* loaded: c depends on b and b on a, in two stages; each run can fail.
ChainTasks ==
  <<Task("a", Some("s1"), None,    << >>,   "none", 0, "any"),
    Task("b", Some("s2"), None,    <<"a">>, "none", 1, "any"),
    Task("c", Some("s1"), Some(1), <<"b">>, "none", 0, "any")>>

InitChain == tasks = ChainTasks /\ Made

\* A run fails in the first batch only.
RunThrowsInFirstBatch(s) == ncalls = 1 /\ RunThrows(s)

NextChain ==
  \/ \E stage \in StageArgs : runTasks(stage)
  \/ \E stage \in StageArgs : runTasksBusy(stage)
  \/ Microtask
  \/ \E s \in Slots : RunResolves(s)
  \/ \E s \in Slots : RunThrowsInFirstBatch(s)
  \/ \E s \in Slots : BackoffElapsed(s)

\* The event loop runs the queued jobs, every run invocation resolves or
\* throws and every backoff elapses.
SpecChain ==
  /\ InitChain /\ [][NextChain]_vars
  /\ WF_vars(Microtask)
  /\ \A s \in Slots :
       /\ WF_vars(RunResolves(s) \/ RunThrowsInFirstBatch(s))
       /\ WF_vars(BackoffElapsed(s))

\* A live-reload session: two independent tasks were registered when the
\* modules were loaded; the application runs batches and calls resetTasks
\* between them.
ReloadTasks ==
  <<Task("a", Some("s1"), None, << >>, "none", 0, "any"),
    Task("b", Some("s1"), None, << >>, "none", 0, "any")>>

InitReload == tasks = ReloadTasks /\ Made

NextReload ==
  \/ \E stage \in StageArgs : runTasks(stage)
  \/ \E stage \in StageArgs : runTasksBusy(stage)
  \/ resetTasks
  \/ Microtask
  \/ \E s \in Slots : RunResolves(s)
  \/ \E s \in Slots : RunThrows(s)

SpecReload == InitReload /\ [][NextReload]_vars

\* The scheduler with tasks that wait for Port Bus channels.
NextPorts ==
  \/ \E task \in PortTaskDefs : registerTask(task)
  \/ \E stage \in StageArgs : runTasks(stage)
  \/ \E p \in Ports : emitPort(p)
  \/ Microtask
  \/ \E s \in Slots : RunResolves(s)
  \/ \E s \in Slots : RunThrows(s)

SpecPorts == Init /\ [][NextPorts]_vars

\* ------------------------------------------------- the path operations
\* store.worker.ts 46-49: STATE = setAtPath(STATE, msg.path, msg.value)
opSet(path, arg) ==
  /\ nops < MaxOps
  /\ LET base == Canon(result, 0)
         value == Canon(arg, base.n).v
     IN /\ tree' = base.v
        /\ applied' = [k |-> "set", path |-> path, value |-> value]
        /\ result' = setAtPath(base.v, path, value, base.n + 2)
  /\ nops' = nops + 1
  /\ UNCHANGED notPaths

\* store.worker.ts 74-77: STATE = deleteAtPath(STATE, msg.path)
opDel(path) ==
  /\ nops < MaxOps
  /\ LET base == Canon(result, 0)
     IN /\ tree' = base.v
        /\ applied' = [k |-> "del", path |-> path, value |-> Undef]
        /\ result' = deleteAtPath(base.v, path, base.n + 1)
  /\ nops' = nops + 1
  /\ UNCHANGED notPaths

NextPaths ==
  \/ \E path \in PathArgs, arg \in ValueArgs(0) : opSet(path, arg)
  \/ \E path \in PathArgs : opDel(path)

SpecPaths == Init /\ [][NextPaths]_vars

\* ------------------------------------------------- the store: actions
\* store.ts 381-391, 370-373 and 172-179: the initial state sent to the worker
Hydrated(opts) ==
  LET p == opts.persist[1]
      raw == localStorage[storageKeyFor(p, opts.name)]
      parsed == IF raw = None THEN Null
                ELSE IF p.version # 0
                        /\ Prop(raw[1], StrKey("__v")) # Num(p.version) THEN Null
                ELSE raw[1]
      data == OptProp(parsed, StrKey("data"))
      stripped == IF Nullish(data) THEN parsed ELSE data
  IN IF opts.persist # None /\ p.backend = "localStorage" /\ ~Nullish(parsed)
     THEN deepMergeMain(opts.initial, stripped)
     ELSE opts.initial

\* A call of the application on the main side.
StoreCall(f, arg) ==
  /\ nstore < MaxStoreApi
  /\ nstore' = nstore + 1
  /\ lastCall' = Call(f, arg)
  /\ UNCHANGED <<idb, localStorage, saved>>
  /\ UNCHANGED notStore

Send(msg) == inbox' = Append(inbox, msg)
Sent(msg) == Send(msg) /\ sentLog' = Append(sentLog, msg)
WorkerKeeps ==
  UNCHANGED <<outbox, NAME, State, PERSIST, phase, appliedLog, idbq,
              persistTimer, timeouts, lastIdb>>

defineGlobalStoreAgain(opts) ==
  /\ StoreCall("defineGlobalStore", opts)
  /\ spawned' = spawned + 1
  /\ registry' = Some(spawned + 1)
  /\ ret' = spawned + 1
  /\ Send(InitMsg(opts.name, Hydrated(opts), opts.persist))
  /\ UNCHANGED <<ready, snap, subsPath, chanLog, sentLog, burst>>
  /\ WorkerKeeps

\* store.ts 158-333
defineGlobalStore(opts) ==
  /\ StoreCall("defineGlobalStore", opts)
  /\ IF registry # None
     THEN /\ ret' = registry[1]
          /\ UNCHANGED <<registry, spawned, inbox>>
     ELSE /\ spawned' = spawned + 1
          /\ registry' = Some(spawned + 1)
          /\ ret' = spawned + 1
          /\ Send(InitMsg(opts.name, Hydrated(opts), opts.persist))
  /\ UNCHANGED <<ready, snap, subsPath, chanLog, sentLog, burst>>
  /\ WorkerKeeps

\* A command that is not an updater ends a run of updater calls.
Command(f, msg) ==
  /\ registry # None
  /\ StoreCall(f, msg)
  /\ Sent(msg)
  /\ burst' = NoBurst
  /\ UNCHANGED <<registry, spawned, ret, ready, snap, subsPath, chanLog>>
  /\ WorkerKeeps

\* store.ts 289-300, a value that is not a function
set(path, value) == Command("set", SetMsg(path, value))
\* store.ts 301-304
merge(patch) == Command("merge", MergeMsg(patch))
\* store.ts 305-308
add(path, item) == Command("add", AddMsg(path, item))
\* store.ts 309-312, itemOrPredicate is not a function
remove(path, item) == Command("remove", RemoveMsg(path, item))
\* store.ts 313-316
del(path) == Command("del", DelMsg(path))

\* The updater prev => prev + 1.
Inc(prev) ==
  CASE prev.t = "num" -> Num(prev.v + 1)
    [] prev = Null -> Num(1)
    [] prev = Undef \/ prev = NaN -> NaN

\* snap ? getAtPath(snap, path) : undefined
Prev(path) == IF snap # None THEN getAtPath(snap[1], path) ELSE Undef

\* burst counts the updater calls made one after the other on path since the
\* main side and the worker were last at rest, and holds the value the path
\* had then.
Quiet == inbox = << >> /\ outbox = << >> /\ phase = "up"
Updater(f, path, prev) ==
  /\ registry # None
  /\ StoreCall(f, path)
  /\ Sent(SetMsg(path, Inc(prev)))
  /\ burst' = IF burst.open /\ burst.path = path
              THEN [burst EXCEPT !.n = @ + 1]
              ELSE IF Quiet /\ snap # None
              THEN [n |-> 1, base |-> getAtPath(snap[1], path), path |-> path,
                    open |-> TRUE]
              ELSE NoBurst
  /\ UNCHANGED <<registry, spawned, ret, ready, snap, subsPath, chanLog>>
  /\ WorkerKeeps

\* store.ts 289-300, a function value
setWith(path) == Updater("set", path, Prev(path))
\* store.ts 317-323
update(path) == Updater("update", path, Prev(path))

\* store.ts 249-259.  Without a snapshot the call posts 'get' and resolves on
\* the next value of the port; that one-shot listener holds no state of the
\* store and is left out.
get ==
  /\ registry # None
  /\ StoreCall("get", None)
  /\ IF snap # None THEN UNCHANGED inbox ELSE Send(GetMsg)
  /\ UNCHANGED <<registry, spawned, ret, ready, snap, subsPath, chanLog,
                 sentLog, burst>>
  /\ WorkerKeeps

\* store.ts 266-276: calls counts the invocations of fn.
watch(path) ==
  /\ registry # None
  /\ StoreCall("watch", path)
  /\ subsPath' = Append(subsPath,
       IF snap # None
       THEN [path |-> path, last |-> getAtPath(snap[1], path), calls |-> 1]
       ELSE [path |-> path, last |-> Undef, calls |-> 0])
  /\ UNCHANGED <<registry, spawned, ret, ready, snap, chanLog, sentLog, burst,
                 inbox>>
  /\ WorkerKeeps

MainKeeps ==
  UNCHANGED <<registry, spawned, ret, ready, snap, subsPath, chanLog, sentLog,
              burst, nstore, lastCall, localStorage>>

\* store.worker.ts 36-82: the worker takes the next message.
WorkerReceives ==
  /\ inbox # << >>
  /\ inbox' = Tail(inbox)
  /\ InstallWk(Handle(Wk, Head(inbox)))
  /\ UNCHANGED <<idb, saved, lastIdb>>
  /\ MainKeeps
  /\ UNCHANGED notStore

\* store.worker.ts 202: the oldest timeout fires and calls its `run`; the
\* variable persistTimer keeps the id.
TimerFires ==
  /\ timeouts # << >>
  /\ InstallWk(PersistRun([Wk EXCEPT !.timeouts = Tail(@)], Head(timeouts).state))
  /\ UNCHANGED <<inbox, idb, saved, lastIdb>>
  /\ MainKeeps
  /\ UNCHANGED notStore

\* value is truthy
TruthyValue(v) == ~Nullish(v) /\ v # NaN /\ v # Num(0)

\* store.worker.ts 220-260 and 96-102: IndexedDB completes the oldest request,
\* or fails it.  A failed save is swallowed by `catch {}` (198); after the
\* load onInit goes on.
IdbStep(ok) ==
  /\ idbq # << >>
  /\ LET req == Head(idbq)
         w == [Wk EXCEPT !.idbq = Tail(@)]
     IN IF req.k = "save"
        THEN /\ InstallWk(w)
             /\ idb' = IF ok THEN [idb EXCEPT ![req.key] = Some(req.json)] ELSE idb
             /\ saved' = IF ok THEN [saved EXCEPT ![req.version] = Some(req.state)]
                         ELSE saved
             /\ lastIdb' = IF ok THEN "saved" ELSE "savefailed"
        ELSE LET loaded == IF ok THEN ParseRecord(PERSIST[1], idb[req.key])
                           ELSE Null
                 w1 == IF TruthyValue(loaded)
                       THEN [w EXCEPT !.State = deepMerge(@, loaded)] ELSE w
             IN /\ InstallWk(InitDone(w1))
                /\ lastIdb' = IF ok THEN "loaded" ELSE "loadfailed"
                /\ UNCHANGED <<idb, saved>>
  /\ UNCHANGED inbox
  /\ MainKeeps
  /\ UNCHANGED notStore

\* store.ts 228-236: the bus listener of the store, for the watchers of paths.
Notify(subs, state) ==
  [i \in 1 .. Len(subs) |->
     LET next == getAtPath(state, subs[i].path)
     IN IF ~StrictEq(next, subs[i].last)
        THEN [subs[i] EXCEPT !.last = next, !.calls = @ + 1]
        ELSE subs[i]]

\* store.ts 182-210: the main side takes the next message of the worker.  A
\* state is emitted on the channel of the store (ports.ts 52-57), which keeps
\* it as the last payload and calls the bus listener.
MainReceives(ok) ==
  /\ outbox # << >>
  /\ outbox' = Tail(outbox)
  /\ LET msg == Head(outbox)
     IN CASE msg.type = "state" ->
               LET state == Clone(msg.state, Len(chanLog) + 1)
               IN /\ ok
                  /\ snap' = Some(state)
                  /\ chanLog' = Append(chanLog, [cause |-> msg.cause,
                                                 state |-> msg.state])
                  /\ subsPath' = Notify(subsPath, state)
                  /\ burst' = [burst EXCEPT !.open = FALSE]
                  /\ UNCHANGED <<ready, localStorage>>
          [] msg.type = "ready" ->
               /\ ok
               /\ ready' = TRUE
               /\ UNCHANGED <<snap, chanLog, subsPath, burst, localStorage>>
          [] msg.type = "persist:ls:set" ->
               /\ localStorage' =
                    IF ok THEN [localStorage EXCEPT ![msg.storageKey] = Some(msg.json)]
                    ELSE localStorage
               /\ UNCHANGED <<ready, snap, chanLog, subsPath, burst>>
  /\ UNCHANGED <<registry, spawned, ret, sentLog, nstore, lastCall, inbox,
                 NAME, State, PERSIST, phase, appliedLog, idbq, persistTimer,
                 timeouts,
                 idb, saved, lastIdb>>
  /\ UNCHANGED notStore

\* The page is closed and opened again: the main side and the worker start
\* anew, IndexedDB and localStorage keep what they hold.
Restart ==
  /\ registry # None
  /\ nstore < MaxStoreApi
  /\ nstore' = nstore + 1
  /\ lastCall' = Call("none", None)
  /\ registry' = None /\ ret' = 0 /\ ready' = FALSE /\ snap' = None
  /\ subsPath' = << >> /\ chanLog' = << >> /\ sentLog' = << >>
  /\ burst' = NoBurst /\ spawned' = 0
  /\ inbox' = << >> /\ outbox' = << >> /\ NAME' = "store"
  /\ State' = Obj(0, NoProps) /\ PERSIST' = None /\ phase' = "none"
  /\ appliedLog' = << >> /\ idbq' = << >> /\ persistTimer' = None
  /\ timeouts' = << >>
  /\ lastIdb' = "none"
  /\ UNCHANGED <<idb, localStorage, saved>>
  /\ UNCHANGED notStore

\* A store without persistence.
NextStore ==
  \/ \E opts \in StoreOpts : defineGlobalStore(opts)
  \/ \E a \in SetArgs : set(a.path, a.value)
  \/ \E patch \in MergeArgs : merge(patch)
  \/ \E path \in DelArgs : del(path)
  \/ \E path \in UpdateArgs : setWith(path)
  \/ \E path \in UpdateArgs : update(path)
  \/ get
  \/ \E path \in WatchArgs : watch(path)
  \/ WorkerReceives
  \/ MainReceives(TRUE)

SpecStore == Init /\ [][NextStore]_vars

\* A store that persists its state, over restarts of the page.
NextPersist ==
  \/ \E opts \in PersistOpts : defineGlobalStore(opts)
  \/ \E a \in PersistSetArgs : set(a.path, a.value)
  \/ WorkerReceives
  \/ \E ok \in BOOLEAN : MainReceives(ok)
  \/ \E ok \in BOOLEAN : IdbStep(ok)
  \/ TimerFires
  \/ Restart

SpecPersist == Init /\ [][NextPersist]_vars

\* A store whose arrays are changed with add and remove.
NextArrays ==
  \/ \E opts \in ArrayOpts : defineGlobalStore(opts)
  \/ \E a \in AddArgs : add(a.path, a.item)
  \/ \E a \in RemoveArgs : remove(a.path, a.item)
  \/ WorkerReceives
  \/ MainReceives(TRUE)

SpecArrays == Init /\ [][NextArrays]_vars

\* ------------------------------------------------- the Port Bus
\* A listener is a function object: a callback of the application (w = 0), or
\* the wrapper the w-th oncePort call made around its cb (ports.ts 84-87).
\* The callbacks of this model call nothing on the bus; the callback "t"
\* throws whenever it is called, the others return normally.
Fn(cb, w) == [cb |-> cb, w |-> w]
Throws(fn) == fn.cb = "t"

\* Set.prototype.add and delete: a Set keeps insertion order, and adding a
\* member again changes nothing.
SetAdd(members, x) ==
  IF \E i \in 1 .. Len(members) : members[i] = x THEN members
  ELSE Append(members, x)
SetDelete(members, x) == SelectSeq(members, LAMBDA y : y # x)
Has(members, x) == \E i \in 1 .. Len(members) : members[i] = x

\* What a call did: it invoked a callback, or posted a message to a worker.
CbEvent(fn, port, payload) ==
  [k |-> "cb", fn |-> fn, port |-> port, payload |-> payload]
PostEvent(w, data) == [k |-> "post", to |-> w, data |-> data]
\* An exception is on its way up the call stack: nothing has caught it.
ThrowEvent(fn) == [k |-> "throw", fn |-> fn]
Thrown(b) == b.fx # << >> /\ b.fx[Len(b.fx)].k = "throw"
PortMsg(port, payload) == [port |-> port, payload |-> payload]

\* The bus as one record, so that a function of ports.ts is a function of it.
Bus ==
  [listeners |-> listeners, last |-> last, offs |-> offs,
   onceCalls |-> onceCalls, fx |-> fx, workers |-> workers]
InstallBus(b) ==
  /\ listeners' = b.listeners
  /\ last' = b.last
  /\ offs' = b.offs
  /\ onceCalls' = b.onceCalls
  /\ fx' = b.fx

\* ports.ts 71-76: the function onPort returned, called at time now.
Off(b, h, now) ==
  [b EXCEPT !.listeners[b.offs[h].port] = SetDelete(@, b.offs[h].fn),
            !.offs[h].calls = @ + 1,
            !.offs[h].lastOff = now]

\* The variable `off` of a wrapper (ports.ts 83, 88): the function onPort
\* returned for it, null until onPort has returned.
OffOf(b, fn) == {h \in 1 .. Len(b.offs) : b.offs[h].fn = fn}

\* fn(data): a callback of the application, or the wrapper of oncePort
\* (ports.ts 84-87): `if (off) off(); cb(data)`.
InvokeCatches(b, fn, port, data, now) ==
  IF fn.w = 0 THEN [b EXCEPT !.fx = Append(@, CbEvent(fn, port, data))]
  ELSE LET b1 == IF OffOf(b, fn) # {}
                 THEN Off(b, CHOOSE h \in OffOf(b, fn) : TRUE, now)
                 ELSE b
       IN [b1 EXCEPT !.fx = Append(@, CbEvent(fn, port, data)),
                     !.onceCalls[fn.w] = @ + 1]

Invoke(b, fn, port, data, now) ==
  LET b1 == IF fn.w # 0 /\ OffOf(b, fn) # {}
            THEN Off(b, CHOOSE h \in OffOf(b, fn) : TRUE, now)
            ELSE b
      b2 == [b1 EXCEPT !.fx = Append(@, CbEvent(fn, port, data)),
                       !.onceCalls = IF fn.w # 0
                                     THEN [@ EXCEPT ![fn.w] = @ + 1] ELSE @]
  IN IF Throws(fn) THEN [b2 EXCEPT !.fx = Append(@, ThrowEvent(fn))] ELSE b2

OffFn(port, fn, now) ==
  [port |-> port, fn |-> fn, sub |-> now, lastOff |-> 0, calls |-> 0]

onPortNeverReplays(b, port, fn, replay, now) ==
  [b EXCEPT !.listeners[port] = SetAdd(@, fn),
            !.offs = Append(@, OffFn(port, fn, now))]

\* ports.ts 59-77.  When the replayed callback throws, onPort does not
\* return: the listener stays added and there is no function to remove it.
onPort(b, port, fn, replay, now) ==
  LET b1 == [b EXCEPT !.listeners[port] = SetAdd(@, fn)]
      b2 == IF replay /\ b1.last[port] # None
            THEN Invoke(b1, fn, port, b1.last[port][1], now)
            ELSE b1
  IN IF Thrown(b2) THEN b2
     ELSE [b2 EXCEPT !.offs = Append(@, OffFn(port, fn, now))]

\* Set.prototype.forEach over the listeners of the channel: a member deleted
\* before its turn is not visited, and a callback that throws ends the loop.
RECURSIVE ForEach(_, _, _, _, _)
ForEachBackwards(b, ls, port, payload, now) ==
  IF ls = << >> \/ Thrown(b) THEN b
  ELSE LET fn == ls[Len(ls)]
           b1 == IF Has(b.listeners[port], fn)
                 THEN Invoke(b, fn, port, payload, now) ELSE b
       IN ForEach(b1, SubSeq(ls, 1, Len(ls) - 1), port, payload, now)

ForEach(b, ls, port, payload, now) ==
  IF ls = << >> \/ Thrown(b) THEN b
  ELSE LET b1 == IF Has(b.listeners[port], Head(ls))
                 THEN Invoke(b, Head(ls), port, payload, now) ELSE b
       IN ForEach(b1, Tail(ls), port, payload, now)

\* ports.ts 56: workers.forEach(w => w.postMessage({port, payload}))
RECURSIVE Forward(_, _, _)
Forward(b, ws, msg) ==
  IF ws = << >> THEN b
  ELSE Forward([b EXCEPT !.fx = Append(@, PostEvent(Head(ws), msg))],
               Tail(ws), msg)

EmitForwardsFirst(b, port, payload, now) ==
  LET b1 == Forward([b EXCEPT !.last[port] = Some(payload)], b.workers,
                    PortMsg(port, payload))
  IN ForEach(b1, b1.listeners[port], port, payload, now)

\* ports.ts 52-57
Emit(b, port, payload, now) ==
  LET b1 == [b EXCEPT !.last[port] = Some(payload)]
      b2 == ForEach(b1, b1.listeners[port], port, payload, now)
  IN IF Thrown(b2) THEN b2 ELSE Forward(b2, b2.workers, PortMsg(port, payload))

\* A call of the application on the bus or the worker registry.
BusCall(c) ==
  /\ nbus < MaxBus
  /\ nbus' = nbus + 1
  /\ lastBus' = c
  /\ UNCHANGED notBus
RegistryKeeps == UNCHANGED <<workerRegistry, workers, wk, regs>>
NoFx == [Bus EXCEPT !.fx = << >>]

\* onPort(port, cb, replay) called by the application, which keeps the
\* function it returns.
subscribe(port, cb, replay) ==
  /\ BusCall([op |-> "subscribe", port |-> port, fn |-> Fn(cb, 0),
              replay |-> replay, h |-> Len(offs) + 1])
  /\ InstallBus(onPort(NoFx, port, Fn(cb, 0), replay, nbus + 1))
  /\ RegistryKeeps

\* ports.ts 79-89
oncePort(port, cb) ==
  LET wrapper == Fn(cb, Len(onceCalls) + 1)
      b == [NoFx EXCEPT !.onceCalls = Append(@, 0)]
  IN /\ BusCall([op |-> "oncePort", port |-> port, fn |-> wrapper,
                 h |-> Len(offs) + 1])
     /\ InstallBus(onPort(b, port, wrapper, TRUE, nbus + 1))
     /\ RegistryKeeps

\* The application calls a function that onPort returned to it.
unsubscribe(h) ==
  /\ offs[h].fn.w = 0
  /\ BusCall([op |-> "unsubscribe", h |-> h, port |-> offs[h].port,
              fn |-> offs[h].fn, again |-> offs[h].calls > 0])
  /\ InstallBus(Off(NoFx, h, nbus + 1))
  /\ RegistryKeeps

\* emitPort(port, payload) called by the application.
emit(port, payload) ==
  /\ BusCall([op |-> "emit", port |-> port, payload |-> payload])
  /\ InstallBus(Emit(NoFx, port, payload, nbus + 1))
  /\ RegistryKeeps

\* The channels, callbacks and payloads the application uses.
Callbacks == {"f", "g"}
Payloads == {1, 2}
SubscribeArgs ==
  {[port |-> "x", cb |-> c, replay |-> r] : c \in Callbacks, r \in BOOLEAN}
    \cup {[port |-> "y", cb |-> "f", replay |-> TRUE]}
OnceArgs == {[port |-> "x", cb |-> "f"], [port |-> "x", cb |-> "g"]}
EmitArgs ==
  {[port |-> "x", payload |-> v] : v \in Payloads}
    \cup {[port |-> "y", payload |-> 1]}

NextBus ==
  \/ \E a \in SubscribeArgs : subscribe(a.port, a.cb, a.replay)
  \/ \E a \in OnceArgs : oncePort(a.port, a.cb)
  \/ \E h \in 1 .. Len(offs) : unsubscribe(h)
  \/ \E a \in EmitArgs : emit(a.port, a.payload)

SpecBus == Init /\ [][NextBus]_vars

\* ------------------------------------------------- the worker registry
\* A Worker object: the name it was made for, whether terminate() was called
\* on it, and the messages it has posted that the main side has not handled.
WorkerObj(name) == [name |-> name, dead |-> FALSE, out |-> << >>]
\* opts.src: "handle" is a Worker the application has made for this call,
\* "factory" a function whose promise resolves to a module object with a new
\* Worker as its default.  opts.initMessage is "init".
SrcKinds == {"handle", "factory"}
InitMessage == [data |-> "init"]
\* What a worker posts: the shape the bridge knows, and another one.
WorkerMsgs == {PortMsg("x", 1), [data |-> "other"]}

\* workers.ts 31-42: the message listener, initMessage, _attachWorker (ports.ts
\* 114-116) and registry.set.
StartWorker(name, w) ==
  /\ fx' = <<PostEvent(w, InitMessage)>>
  /\ workers' = SetAdd(workers, w)
  /\ workerRegistry' = [workerRegistry EXCEPT ![name] = w]

\* workers.ts 23-43, up to the first await or, without one, to the end.
registerWorker(name, src) ==
  /\ BusCall([op |-> "registerWorker", name |-> name, src |-> src])
  /\ UNCHANGED <<listeners, last, offs, onceCalls>>
  /\ IF workerRegistry[name] # 0
     THEN UNCHANGED <<workerRegistry, workers, wk, regs>> /\ fx' = << >>
     ELSE /\ wk' = Append(wk, WorkerObj(name))
          /\ IF src = "handle"
             THEN StartWorker(name, Len(wk) + 1) /\ UNCHANGED regs
             ELSE /\ regs' = Append(regs, [name |-> name, w |-> Len(wk) + 1])
                  /\ fx' = << >>
                  /\ UNCHANGED <<workerRegistry, workers>>

\* workers.ts 26-42: the promise of the factory has resolved and the call goes
\* on after `await opts.src()`.
FactoryResolves(i) ==
  /\ i \in 1 .. Len(regs)
  /\ regs' = [j \in 1 .. Len(regs) - 1 |-> IF j < i THEN regs[j] ELSE regs[j + 1]]
  /\ StartWorker(regs[i].name, regs[i].w)
  /\ lastBus' = [op |-> "resolved", name |-> regs[i].name, w |-> regs[i].w]
  /\ UNCHANGED <<listeners, last, offs, onceCalls, nbus, wk>>
  /\ UNCHANGED notBus

\* workers.ts 48-49
sendToWorker(name, data) ==
  /\ BusCall([op |-> "sendToWorker", name |-> name, data |-> data])
  /\ fx' = IF workerRegistry[name] # 0
           THEN <<PostEvent(workerRegistry[name], data)>>
           ELSE << >>
  /\ UNCHANGED <<listeners, last, offs, onceCalls>>
  /\ RegistryKeeps

\* workers.ts 54-60.  terminate() ends the worker and discards the messages it
\* has posted that are not handled yet.
terminateWorker(name) ==
  /\ BusCall([op |-> "terminateWorker", name |-> name])
  /\ fx' = << >>
  /\ LET w == workerRegistry[name]
     IN IF w # 0
        THEN /\ wk' = [wk EXCEPT ![w].dead = TRUE, ![w].out = << >>]
             /\ workerRegistry' = [workerRegistry EXCEPT ![name] = 0]
        ELSE UNCHANGED <<wk, workerRegistry>>
  /\ UNCHANGED <<listeners, last, offs, onceCalls, workers, regs>>

\* A worker that runs and has a message listener on the main side posts a
\* message.
WorkerPosts(w, msg) ==
  /\ w \in 1 .. Len(wk)
  /\ ~wk[w].dead /\ Has(workers, w)
  /\ nbus < MaxBus
  /\ nbus' = nbus + 1
  /\ wk' = [wk EXCEPT ![w].out = Append(@, msg)]
  /\ UNCHANGED <<listeners, last, offs, onceCalls, fx, lastBus,
                 workerRegistry, workers, regs>>
  /\ UNCHANGED notBus

\* workers.ts 31-36: the message listener of the bridge.
Bridge(w) ==
  /\ w \in 1 .. Len(wk)
  /\ wk[w].out # << >>
  /\ wk' = [wk EXCEPT ![w].out = Tail(@)]
  /\ LET msg == Head(wk[w].out)
     IN /\ lastBus' = [op |-> "message", from |-> w, data |-> msg]
        /\ IF "port" \in DOMAIN msg
           THEN InstallBus(Emit(NoFx, msg.port, msg.payload, nbus))
           ELSE /\ fx' = << >>
                /\ UNCHANGED <<listeners, last, offs, onceCalls>>
  /\ UNCHANGED <<nbus, workerRegistry, workers, regs>>
  /\ UNCHANGED notBus

NextWorkers ==
  \/ \E name \in WorkerNames, src \in SrcKinds : registerWorker(name, src)
  \/ \E i \in 1 .. Len(regs) : FactoryResolves(i)
  \/ \E name \in WorkerNames : sendToWorker(name, [data |-> "data"])
  \/ \E name \in WorkerNames : terminateWorker(name)
  \/ \E w \in 1 .. Len(wk), msg \in WorkerMsgs : WorkerPosts(w, msg)
  \/ \E w \in 1 .. Len(wk) : Bridge(w)
  \/ emit("x", 2)
  \/ subscribe("x", "f", FALSE)

SpecWorkers == Init /\ [][NextWorkers]_vars

\* The Port Bus with a callback that throws, and a worker attached to it.
NextThrow ==
  \/ \E cb \in {"f", "t", "g"}, replay \in BOOLEAN : subscribe("x", cb, replay)
  \/ \E h \in 1 .. Len(offs) : unsubscribe(h)
  \/ \E v \in Payloads : emit("x", v)
  \/ registerWorker("w", "handle")

SpecThrow == Init /\ [][NextThrow]_vars

\* ------------------------------------------------------------- claims
Live(s) == ex[s].pc # "free"
DepsOf(t) == {t.deps[i] : i \in 1 .. Len(t.deps)}
SelectedIds == {selected[i] : i \in 1 .. Len(selected)}
RunLogIds == {runLog[i].id : i \in 1 .. Len(runLog)}

\* C1: whenever the run of a task A has been started, every B in A.deps has had
\* its run resolve successfully before (or no task was registered under B's id,
\* so that there was no run to wait for).
C1_RunOnlyAfterDepsRan ==
  \A s \in Slots :
    ex[s].pc \in {"run", "backoff"} =>
      \A b \in DepsOf(ex[s].t) : b \in ranOk \/ ended[b].how = "notask"

Waiters(s) == {ex[s].waiters[i] : i \in 1 .. Len(ex[s].waiters)}

\* The execution in slot s can still settle its in-flight promise.
CanSettle(s) ==
  Live(s) /\ ~(ex[s].pc = "deps" /\ (ex[s].failed \/ ex[s].stuck))

\* The call's promise has rejected, or still can: a rejection is on its way
\* to it, or it awaits an execution that can still reject.
CallRejectsOrCan ==
  \/ call.status = "rejected"
  \/ /\ call.status = "pending"
     /\ \/ call.failed
        \/ \E i \in 1 .. Len(mq) : mq[i].w = Ref(0, ncalls) /\ ~mq[i].ok
        \/ \E s \in Slots : CanSettle(s) /\ Ref(0, ncalls) \in Waiters(s)

\* C2: when a dependency of a task selected by the call has failed, the
\* dependent is not in done and the call's promise rejects.
C2_DepFailureRejectsCall ==
  \A id \in SelectedIds :
    ended[id].how = "depfailed" /\ ended[id].batch = ncalls =>
      id \notin done /\ CallRejectsOrCan

\* C3: no runTasks call is accepted while the earlier one is unsettled (the
\* flag is set exactly then), and the refused call changes nothing: the flag, done, the in-flight map, the
\* executions and the first call's promise are as they were.
C3_RefusedCallChangesNothing ==
  [][ /\ (call.status = "pending" => ncalls' = ncalls)
      /\ (running' <=> call'.status = "pending")
      /\ (lastApi' = "refused" /\ napi' # napi =>
            running' /\ UNCHANGED <<tasks, done, cache, running, ex, mq, call>>)
    ]_vars

\* C3 witness: a call was refused and the first call has resolved since.
C3_Witness ==
  lastApi = "refused" /\ call.status = "resolved" /\ ranOk # {}

\* C4: a runTasks call starts no execution for an id already in done, and
\* starts one for every selected id that is neither in done nor in flight; done
\* only grows, except that resetTasks empties it.
C4_DoneIsNotRerun ==
  [][ /\ (ncalls' # ncalls =>
            /\ started' \cap done = {}
            /\ \A i \in 1 .. Len(selected') :
                 selected'[i] \notin done /\ cache[selected'[i]] = 0 =>
                   selected'[i] \in started')
      /\ (lastApi' = "resetTasks" /\ napi' # napi => done' = {})
      /\ (~(lastApi' = "resetTasks" /\ napi' # napi) => done \subseteq done')
    ]_vars

\* C4 witness: a task ran in the first batch, was registered again and selected
\* by the second call, which started nothing.
C4_Witness ==
  /\ ncalls = 2 /\ lastApi = "runTasks"
  /\ started = {} /\ runLog = << >>
  /\ \E id \in SelectedIds :
       /\ id \in done
       /\ ended[id].how = "done" /\ ended[id].batch = 1
       /\ HasTask(id) /\ TaskGet(id) # ended[id].t

\* C5: a task whose run always throws and whose retries are exhausted had run
\* invoked retry + 1 times, is not in done, and the call's promise rejects.
C5_RetryThenCallRejects ==
  \A id \in Ids :
    /\ ended[id].how = "failed" /\ ended[id].batch = ncalls
    /\ ended[id].t.run = "throw"
    => /\ ended[id].inv = ended[id].t.retry + 1
       /\ id \notin done
       /\ CallRejectsOrCan

\* The execution of id ended in this step because its condition was false.
SkipStep(id) == ended'[id] # ended[id] /\ ended'[id].how = "skipped"

\* C6: a false condition ends the execution with no run invocation, adds
\* nothing to done, removes the in-flight key, and makes no awaiting promise
\* fail or hang; a later call starts a new execution, which evaluates the
\* condition again, for a skipped id it selects; it starts none for an id in done.
C6_SkippedStaysEligible ==
  [][ /\ \A id \in Ids :
           SkipStep(id) =>
             /\ ended'[id].inv = 0
             /\ done' = done
             /\ cache'[id] = 0
             /\ call'.failed = call.failed /\ call'.stuck = call.stuck
             /\ \A s \in Slots : ex'[s].failed = ex[s].failed
                                 /\ ex'[s].stuck = ex[s].stuck
             /\ Len(mq') >= Len(mq)
             /\ \A i \in 1 .. Len(mq') :
                  IF i <= Len(mq) THEN mq'[i] = mq[i] ELSE mq'[i].ok
      /\ ncalls' # ncalls =>
           \A i \in 1 .. Len(selected') :
             LET id == selected'[i] IN
             /\ (ended[id].how = "skipped" /\ id \notin done /\ cache[id] = 0
                   => \E s \in Slots :
                        /\ ex[s].pc = "free" /\ ex'[s].id = id
                        /\ ex'[s].pc \in {"deps", "when", "whenq", "run"}
                        /\ ex'[s].inv = IF ex'[s].pc = "run" THEN 1 ELSE 0)
             /\ (id \in done
                   => ~ \E s \in Slots : ex[s].pc = "free" /\ ex'[s].id = id)
    ]_vars

\* C6 witness: a task skipped in the first batch has its run invoked in the
\* second.
C6_Witness ==
  /\ ncalls = 2
  /\ \E id \in RunLogIds : ended[id].how = "skipped" /\ ended[id].batch = 1

\* The execution of id ended in this step with its retries exhausted.
FailStep(id) == ended'[id] # ended[id] /\ ended'[id].how = "failed"

C8_NoRunStartsAfterRejection ==
  [][ call.status = "rejected" =>
        \A s \in Slots :
          Live(s) /\ ex[s].batch = ncalls /\ ex[s].inv = 0 => ex'[s].inv = 0
    ]_vars

Fresh(id) == id \notin done /\ cache[id] = 0

\* The ids reached from R along deps, through ids that are neither in done
\* nor in flight.
RECURSIVE DepClosure(_)
DepClosure(R) ==
  LET more == {d \in Ids : Fresh(d) /\ \E x \in R : HasTask(x)
                                        /\ d \in DepsOf(TaskGet(x))}
  IN IF more \subseteq R THEN R ELSE DepClosure(R \cup more)

RegisteredIds == {tasks[i].id : i \in 1 .. Len(tasks)}

\* The tasks registered with the stage; all of them when it is omitted, an
\* empty stage name counting as omitted.
StageIds(stage) ==
  {id \in RegisteredIds : stage = None \/ stage = Some("")
                          \/ TaskGet(id).stage = stage}

\* What a call that selects sel starts, and leaves alone.
StartsExactly(sel) ==
  LET exp == DepClosure({id \in sel : Fresh(id)}) IN
  /\ started' = exp
  /\ \A s \in Slots :
       IF Live(s) THEN [ex'[s] EXCEPT !.waiters = ex[s].waiters] = ex[s]
       ELSE ex'[s].pc = "free" \/ ex'[s].id \in exp
  /\ \A id \in exp : ~HasTask(id) \/ \E s \in Slots : ~Live(s) /\ ex'[s].id = id
  /\ \A id \in Ids \ exp : cache'[id] = cache[id] /\ (id \in done' <=> id \in done)
  /\ \A s \in Slots :
       ~Live(s) /\ ex'[s].pc # "free" =>
         \A d \in DepsOf(ex'[s].t) :
           \/ d \in done'
           \/ /\ ex'[s].pc = "deps" /\ cache'[d] # 0
              /\ \E i \in 1 .. Len(ex'[cache'[d]].waiters) :
                   ex'[cache'[d]].waiters[i] = Ref(s, ncalls')

\* C9: runTasks(stage) starts the tasks registered with that stage (all of
\* them when it is omitted) and their transitive dependencies, whatever the
\* stage of these, and nothing else; and when the run of a task is first
\* invoked, the run of each of its dependencies has resolved (or no task is
\* registered under the dependency's id).
C9_StartsStageAndDepsRunFirst ==
  [][ /\ (ncalls' # ncalls => StartsExactly(StageIds(callStage')))
      /\ \A s \in Slots :
           ex[s].inv = 0 /\ ex'[s].inv = 1 =>
             \A d \in DepsOf(ex'[s].t) :
               d \in ranOk \/ ended[d].how = "notask"
    ]_vars

Unblocked(t) == t.deps = << >> /\ t.when \in {"none", "immediate"}
RegIndex(id) == CHOOSE i \in 1 .. Len(tasks) : tasks[i].id = id

\* C10: among the selected tasks without dependencies whose condition is
\* absent or `immediate`, the first run invocations are in ascending priority
\* order, ties in registration order.
C10_StartOrderFollowsPriority ==
  \A i, j \in 1 .. Len(runLog) :
    /\ i < j
    /\ Unblocked(runLog[i]) /\ Unblocked(runLog[j])
    /\ runLog[i].id \in SelectedIds /\ runLog[j].id \in SelectedIds
    => \/ Prio(runLog[i]) < Prio(runLog[j])
       \/ /\ Prio(runLog[i]) = Prio(runLog[j])
          /\ RegIndex(runLog[i].id) < RegIndex(runLog[j].id)

\* The channels the condition of task t names.
WhenPorts(t) == {PortsOf(t.when)[i] : i \in 1 .. Len(PortsOf(t.when))}
Emitted(p) == last[p] # None

Parts == splitPath(applied.path)
Prefix(i) == SubSeq(Parts, 1, i)
PathKeys ==
  {NumKey(Number(d), d) : d \in Digits} \cup {StrKey(n) : n \in Names}
\* The node the path reaches after i segments, before and after the operation.
OldNode(i) == Walk(tree, Prefix(i))
NewNode(i) == Walk(result, Prefix(i))

RoundTrip == getAtPath(result, applied.path) = applied.value
PathIsNew ==
  \A i \in 0 .. Len(Parts) - 1 :
    /\ NewNode(i).t \in {"obj", "arr"}
    /\ NewNode(i).id \notin IdsOf(tree) \cup IdsOf(applied.value)
SiblingsKept ==
  \A i \in 0 .. Len(Parts) - 1 : \A k \in PathKeys :
    k # Parts[i + 1] => OptProp(NewNode(i), k) = OptProp(OldNode(i), k)

\* C19, as stated: after setAtPath(state, p, v), for every state, reading p
\* yields v, every node on the path is a new identity and every subtree off
\* the path keeps its identity and content.
C19_SetAtPathAnyState ==
  applied.k = "set" => RoundTrip /\ PathIsNew /\ SiblingsKept

\* C19, amended: the same for every state that is a JSON tree.  An array that
\* carries a named property (set('a.b', v) on an array a makes one) loses it
\* when a later path goes through the array, since slice() copies elements only.
C19_SetAtPathJsonState ==
  applied.k = "set" /\ IsJson(tree) => RoundTrip /\ PathIsNew /\ SiblingsKept

C19_Witness ==
  /\ applied.k = "set" /\ IsJson(tree)
  /\ Len(Parts) = 2
  /\ isArray(OldNode(1)) /\ Len(OldNode(1).e) = 2
  /\ \E k \in PathKeys : k # Parts[1] /\ isArray(OptProp(OldNode(0), k))

\* C20: reading p from deleteAtPath(s, p) yields undefined, for object keys
\* and array indices alike.
C20_DeletedPathReadsUndefined ==
  applied.k = "del" => getAtPath(result, applied.path) = Undef

\* ---- the store
IsPrefix(a, b) == Len(a) <= Len(b) /\ a = SubSeq(b, 1, Len(a))
IsCmd(e) == e.cause.k = "cmd"
\* The snapshots on the channel of the store that a command caused, and the
\* state messages of commands still on their way to the main side.
CmdSnapshots == SelectSeq(chanLog, IsCmd)
IsCmdState(m) == m.type = "state" /\ m.cause.k = "cmd"
CmdStatesUnderWay == SelectSeq(outbox, IsCmdState)

\* What a command makes of a state.
ApplyCmd(s, msg) ==
  CASE msg.type = "op:set" -> setAtPath(s, msg.path, msg.value, 0)
    [] msg.type = "op:merge" -> deepMerge(s, msg.patch)
    [] msg.type = "op:del" -> deleteAtPath(s, msg.path, 0)
RECURSIVE ApplyAll(_, _)
ApplyAll(s, msgs) ==
  IF msgs = << >> THEN s
  ELSE ApplyAll(Content(ApplyCmd(s, Head(msgs))), Tail(msgs))

\* C12: the worker applies the commands in the order they were sent; every
\* command applied has exactly one state message, on the channel or on its
\* way; the channel carries the snapshots of the commands in order, the i-th
\* being the state after the first i commands; when nothing is on its way the
\* channel has carried one snapshot per command sent.
C12_OneBroadcastPerCommandInOrder ==
  /\ IsPrefix([i \in 1 .. Len(appliedLog) |-> appliedLog[i].cmd], sentLog)
  /\ Len(CmdSnapshots) + Len(CmdStatesUnderWay) = Len(appliedLog)
  /\ \A i \in 1 .. Len(CmdSnapshots) :
       /\ CmdSnapshots[i].cause.i = i
       /\ CmdSnapshots[i].state =
            ApplyAll(chanLog[1].state, SubSeq(sentLog, 1, i))
  /\ inbox = << >> /\ outbox = << >> => Len(CmdSnapshots) = Len(sentLog)

C12_Witness ==
  /\ inbox = << >> /\ outbox = << >>
  /\ Len(sentLog) = 3 /\ Len(CmdSnapshots) = 3
  /\ CmdSnapshots[1].state # CmdSnapshots[2].state
  /\ CmdSnapshots[2].state # CmdSnapshots[3].state
  /\ sentLog[1].type = "op:set" /\ sentLog[2].type = "op:del"

\* C13: after k updater calls made one after the other on a path, once the
\* worker has handled them and all the states have arrived, the value at the
\* path is the value it had before the first call plus k.
C13_UpdatersCompose ==
  burst.n > 0 /\ burst.base.t = "num" /\ Quiet =>
    getAtPath(snap[1], burst.path) = Num(burst.base.v + burst.n)

\* C14: whenever the promise `ready` is resolved, the channel of the store
\* holds a snapshot, so get() answers from it without asking the worker.
C14_ReadyAfterFirstSnapshot ==
  /\ [](ready => snap # None /\ chanLog # << >>)
  /\ [][ready /\ lastCall'.f = "get" /\ nstore' = nstore + 1 =>
          inbox' = inbox]_vars

C14_Witness ==
  /\ ready /\ snap # None
  /\ lastCall.f = "get" /\ inbox = << >> /\ Len(chanLog) = 1

\* C15: a defineGlobalStore call with a name that has an entry returns the
\* handle of that entry, creates no worker, posts no init and leaves the
\* worker with the options of the first call; there is never more than one
\* worker for the name.
C15_DefineIsIdempotentByName ==
  /\ [](spawned <= 1)
  /\ [][registry # None /\ lastCall'.f = "defineGlobalStore"
        /\ nstore' = nstore + 1 =>
          /\ ret' = registry[1]
          /\ UNCHANGED <<registry, spawned, inbox, outbox, NAME, State,
                         PERSIST, phase, snap, ready, subsPath>>]_vars

C15_Witness ==
  /\ lastCall.f = "defineGlobalStore" /\ nstore = 2
  /\ spawned = 1 /\ ret = 1 /\ registry = Some(1)
  /\ phase = "up"
  /\ State # lastCall.arg.initial

\* Neither path leads into the other.
Apart(p, q) == ~IsPrefix(p, q) /\ ~IsPrefix(q, p)
\* The broadcast the main side takes next leaves the value at path as it was:
\* the worker answers a get, or has applied a set or del to a path apart.
LeavesUnchanged(m, path) ==
  \/ m.cause.k = "get"
  \/ /\ m.cause.k = "cmd"
     /\ appliedLog[m.cause.i].cmd.type \in {"op:set", "op:del"}
     /\ Apart(appliedLog[m.cause.i].cmd.path, path)

\* C18: on a broadcast, fn of a watcher is invoked once when the value at its
\* path differs from the value it last observed and is not invoked when the
\* broadcast leaves that value unchanged; watch invokes fn at once with the
\* current value when there is a snapshot, and not otherwise.
C18_WatchFiresIffChanged ==
  /\ [][Len(chanLog') > Len(chanLog) =>
          \A i \in 1 .. Len(subsPath) :
            LET next == getAtPath(snap'[1], subsPath[i].path)
            IN /\ Content(next) # Content(subsPath[i].last) =>
                    /\ subsPath'[i].calls = subsPath[i].calls + 1
                    /\ subsPath'[i].last = next
               /\ LeavesUnchanged(Head(outbox), subsPath[i].path) =>
                    subsPath'[i].calls = subsPath[i].calls]_vars
  /\ [][Len(subsPath') > Len(subsPath) =>
          LET sub == subsPath'[Len(subsPath')]
          IN IF snap # None
             THEN sub.calls = 1 /\ sub.last = getAtPath(snap[1], sub.path)
             ELSE sub.calls = 0]_vars

\* ---- persistence
\* onInit has ended with the step: the load of IndexedDB has completed.
Hydrates == phase = "loading" /\ phase' = "up" /\ lastIdb' = "loaded"

\* C16: a store with backend indexedDB and version v that handles no command
\* before its load completes hydrates to the state of the latest completed
\* save under v, as JSON keeps it, merged over its initial state; when there
\* is no save under v, whatever was saved under other versions, it hydrates
\* to its initial state.
C16_HydratesToSavedState ==
  [][Hydrates /\ PERSIST[1].backend = "indexedDB" /\ appliedLog = << >> =>
       LET record == saved[PERSIST[1].version]
       IN /\ State' = IF record = None THEN State
                      ELSE deepMerge(State, Json(record[1]))
          /\ outbox' = outbox \o <<StateMsg(State', Cause("init", 0)), ReadyMsg>>
    ]_vars

C16_Witness ==
  /\ phase = "up" /\ lastIdb = "loaded" /\ appliedLog = << >>
  /\ PERSIST # None /\ PERSIST[1].backend = "indexedDB"
  /\ PERSIST[1].version = 1
  /\ saved[1] # None /\ saved[2] = None
  /\ State = saved[1][1]
  /\ getAtPath(State, <<"a">>) = Num(5)

\* C17: when a save of a store with backend auto fails in IndexedDB, the
\* worker asks the main side to write the record to localStorage.
C17_AutoFallsBackToLocalStorage ==
  [][/\ idbq # << >> /\ idbq' = Tail(idbq)
     /\ Head(idbq).k = "save"
     /\ lastIdb' = "savefailed"
     /\ PERSIST # None /\ PERSIST[1].backend = "auto"
     => \E i \in 1 .. Len(outbox') :
          outbox'[i] = LsSetMsg(Head(idbq).key, Head(idbq).json)]_vars
\* ---- add and remove
\* The same command: the same type, path and item content.
IsArrayCmd(m) == m.type \in {"op:add", "op:remove"}

\* C21: op:add(path, x) applied twice in a row leaves the state of the first
\* application, and so does op:remove(path, x) applied twice in a row.
C21_AddRemoveIdempotent ==
  \A i \in 2 .. Len(appliedLog) :
    IsArrayCmd(appliedLog[i].cmd) /\ appliedLog[i].cmd = appliedLog[i - 1].cmd
      => appliedLog[i].state = appliedLog[i - 1].state

\* The worker handles an op:remove whose target is not an array.
RemoveOfNoArray ==
  /\ inbox # << >> /\ inbox' = Tail(inbox)
  /\ Head(inbox).type = "op:remove"
  /\ ~isArray(getAtPath(State, Head(inbox).path))

\* C22: op:remove on a target that is not an array leaves the content of the
\* state as it was.
C22_RemoveOfNoArrayIsNoOp ==
  [][RemoveOfNoArray => Content(State') = Content(State)]_vars
\* ---- the Port Bus
\* This step is a call of the application on the bus.
IsBusCall(op) == nbus' = nbus + 1 /\ lastBus'.op = op
Max(S) == CHOOSE x \in S : \A y \in S : y <= x
Min(S) == CHOOSE x \in S : \A y \in S : x <= y
\* The functions onPort returned for this callback on this channel, and when
\* one of them was called last.
Handles(p, fn) == {h \in 1 .. Len(offs) : offs[h].port = p /\ offs[h].fn = fn}
LastOff(p, fn) == Max({0} \cup {offs[h].lastOff : h \in Handles(p, fn)})
\* When the callback was subscribed, counting from the last unsubscribe.
Subscribes(p, fn) ==
  {offs[h].sub : h \in {g \in Handles(p, fn) : offs[g].sub > LastOff(p, fn)}}
Subscribed(p, fn) == Subscribes(p, fn) # {}
Since(p, fn) == Min(Subscribes(p, fn))
AllFns == {offs[h].fn : h \in 1 .. Len(offs)}
IsCb(e) == e.k = "cb"
Invocations(events) == SelectSeq(events, IsCb)
Times(events, fn) ==
  Cardinality({i \in 1 .. Len(events) : events[i].k = "cb" /\ events[i].fn = fn})

C24_UnsubscribeAgainChangesNothing ==
  [][IsBusCall("unsubscribe") /\ lastBus'.again =>
       listeners' = listeners /\ last' = last]_vars

\* The wrapper of the n-th oncePort call is a listener of some channel.
WrapperListens(n) ==
  \E p \in Ports : \E i \in 1 .. Len(listeners[p]) : listeners[p][i].w = n

\* C25: the callback given to oncePort is invoked at most once, and after that
\* invocation its wrapper is no listener any more.
C25_OncePortInvokesAtMostOnce ==
  \A n \in 1 .. Len(onceCalls) :
    /\ onceCalls[n] <= 1
    /\ onceCalls[n] = 1 => ~WrapperListens(n)

\* C26: an emit invokes the subscribed callbacks of the channel, each once and
\* with the payload, in the order in which they were subscribed.
C26_EmitFollowsSubscriptionOrder ==
  [][IsBusCall("emit") =>
       LET p == lastBus'.port
           calls == Invocations(fx')
       IN /\ \A fn \in AllFns :
               Times(fx', fn) = IF Subscribed(p, fn) THEN 1 ELSE 0
          /\ \A i \in 1 .. Len(calls) :
               calls[i] = CbEvent(calls[i].fn, p, lastBus'.payload)
          /\ \A i, j \in 1 .. Len(calls) :
               i < j => Since(p, calls[i].fn) < Since(p, calls[j].fn)]_vars

\* C26 witness: an emit reached three callbacks, one of them subscribed again
\* after it had been unsubscribed, so that it came after a later subscriber.
C26_Witness ==
  /\ lastBus.op = "emit"
  /\ Len(fx) >= 2
  /\ \E h \in 1 .. Len(offs) :
       /\ offs[h].fn = fx[1].fn /\ offs[h].port = lastBus.port
       /\ \E g \in 1 .. Len(offs) :
            /\ offs[g].fn = fx[2].fn /\ offs[g].port = lastBus.port
            /\ offs[g].calls > 0 /\ offs[g].sub < offs[h].sub
\* ---- the worker registry
\* This step is an emit: a call of the application, or the bridge handling a
\* {port, payload} message of a worker.
IsEmit ==
  \/ IsBusCall("emit")
  \/ lastBus'.op = "message" /\ wk' # wk /\ "port" \in DOMAIN lastBus'.data
EmittedMsg ==
  IF lastBus'.op = "emit" THEN PortMsg(lastBus'.port, lastBus'.payload)
  ELSE lastBus'.data
PostsTo(events, w) ==
  {i \in 1 .. Len(events) : events[i].k = "post" /\ events[i].to = w}

\* C27: an emit on the main side, by the application or by the bridge, posts
\* {port, payload} once to every attached worker, the one the bridged message
\* came from included, and to no one else, after it has invoked the callbacks.
C27_EmitForwardsToEveryWorker ==
  [][IsEmit =>
       /\ \A w \in 1 .. Len(wk) :
            /\ Cardinality(PostsTo(fx', w)) = IF Has(workers, w) THEN 1 ELSE 0
            /\ \A i \in PostsTo(fx', w) : fx'[i].data = EmittedMsg
       /\ \A i, j \in 1 .. Len(fx') :
            fx'[i].k = "cb" /\ fx'[j].k = "post" => i < j]_vars

\* C27 witness: the bridge has emitted the message of one of two attached
\* workers: a callback was invoked, then both workers were posted to.
C27_Witness ==
  /\ lastBus.op = "message" /\ "port" \in DOMAIN lastBus.data
  /\ Len(workers) = 2
  /\ Len(fx) = 3 /\ fx[1].k = "cb"
  /\ fx[2].k = "post" /\ fx[3].k = "post"
  /\ lastBus.from \in {fx[2].to, fx[3].to}

\* The workers that run and were made for this name by a call of
\* registerWorker that went past the check of the registry.
StartedFor(name) ==
  {w \in 1 .. Len(wk) : wk[w].name = name /\ ~wk[w].dead}

\* C28: whatever the interleaving of registerWorker calls with one name, at
\* most one worker is started and attached for the name, and the entry of the
\* registry is not replaced.
C28_RegisterWorkerIdempotentByName ==
  /\ [](\A name \in WorkerNames : Cardinality(StartedFor(name)) <= 1)
  /\ [][\A name \in WorkerNames :
          workerRegistry[name] # 0 /\ workerRegistry'[name] # 0
            => workerRegistry'[name] = workerRegistry[name]]_vars

\* C29: terminateWorker(name) leaves no entry for the name, and no message is
\* posted to a terminated worker afterwards, neither by sendToWorker nor by
\* the forwarding of an emit.
C29_NoPostAfterTerminate ==
  /\ [][IsBusCall("terminateWorker") =>
          workerRegistry'[lastBus'.name] = 0]_vars
  /\ [][\A i \in 1 .. Len(fx') :
          fx'[i].k = "post" => ~wk'[fx'[i].to].dead]_vars
\* ---- in-flight deduplication
\* C30: without resetTasks, at most one execution of an id is in progress at
\* any time, the in-flight key of the id is kept exactly while it is, and a
\* runTasks call that selects an id in flight starts nothing for it and awaits
\* the execution there is.
C30_OneExecutionInFlightPerId ==
  /\ [](/\ \A s1, s2 \in Slots :
             Live(s1) /\ Live(s2) /\ ex[s1].id = ex[s2].id => s1 = s2
        /\ \A s \in Slots : Live(s) => cache[ex[s].id] = s
        /\ \A id \in Ids : cache[id] # 0 => Live(cache[id]))
  /\ [][\A id \in Ids :
          /\ ncalls' = ncalls + 1
          /\ id \in SelectedIds' /\ id \notin done /\ cache[id] # 0
          => /\ cache'[id] = cache[id]
             /\ ex'[cache[id]] =
                  [ex[cache[id]] EXCEPT !.waiters = ex'[cache[id]].waiters]
             /\ IsPrefix(ex[cache[id]].waiters, ex'[cache[id]].waiters)
             /\ \E i \in 1 .. Len(ex'[cache[id]].waiters) :
                  ex'[cache[id]].waiters[i] = Ref(0, ncalls')]_vars

\* C30 witness: a runTasks call awaits an execution that an earlier batch has
\* started and that is still running after that batch has rejected.
C30_Witness ==
  \E s \in Slots :
    /\ Live(s) /\ ex[s].pc = "run"
    /\ ex[s].batch < ncalls
    /\ Ref(0, ncalls) \in Waiters(s)
    /\ call.status = "pending"
    /\ \E id \in Ids : ended[id].how = "failed"

\* No execution is at a condition, in a run invocation or in a backoff, and
\* no job is queued.
NothingPending ==
  /\ mq = << >>
  /\ \A s \in Slots :
       ex[s].pc \notin {"when", "whenq", "whenport", "run", "backoff"}

\* C31: in every state where no run invocation, retry backoff or when
\* condition is pending, the in-flight map holds no entry.
C31_NoEntryWhenNothingPending ==
  NothingPending => \A id \in Ids : cache[id] = 0

\* The end of an execution removes the in-flight key of its id.
EndRemovesKey ==
  [][\A id \in Ids : ended'[id] # ended[id] => cache'[id] = 0]_vars

\* The worker handles a command in this step.
HandlesCommand == Len(appliedLog') = Len(appliedLog) + 1
StateAfterLastCommand == appliedLog[Len(appliedLog)].state
Debounced == PERSIST # None /\ PERSIST[1].debounceMs > 0
Immediate == PERSIST # None /\ PERSIST[1].debounceMs = 0
\* The write `run` starts for a state: a request to IndexedDB, or the message
\* that asks the main side to write to localStorage.
SaveRequest(state) ==
  [k |-> "save", key |-> storageKeyFor(PERSIST[1], NAME),
   json |-> Payload(PERSIST[1], state), version |-> PERSIST[1].version,
   state |-> state]
LsRequest(state) ==
  LsSetMsg(storageKeyFor(PERSIST[1], NAME), Payload(PERSIST[1], state))
StartsWriteOf(state) ==
  IF PERSIST[1].backend = "localStorage"
  THEN /\ idbq' = idbq
       /\ outbox' = Append(Append(outbox, outbox'[Len(outbox) + 1]),
                           LsRequest(state))
  ELSE /\ idbq' = Append(idbq, SaveRequest(state))
       /\ \A i \in 1 .. Len(outbox') : outbox'[i].type # "persist:ls:set"
                                       \/ i <= Len(outbox)
StartsNoWrite ==
  /\ idbq' = idbq
  /\ \A i \in Len(outbox) + 1 .. Len(outbox') : outbox'[i].type # "persist:ls:set"

\* C32: with debounceMs > 0 at most one save is pending at any time, a command
\* starts no write but cancels the pending save and schedules one for the
\* state it made, and the timeout that fires starts exactly one write, of the
\* state after the latest command; with debounceMs = 0 every command starts
\* the write of its own state at once.
C32_DebounceKeepsOnePendingSave ==
  /\ [](Len(timeouts) <= 1)
  /\ [][/\ (HandlesCommand /\ Debounced =>
              /\ StartsNoWrite
              /\ Len(timeouts') = 1
              /\ timeouts'[1].state = State'
              /\ (timeouts # << >> => timeouts'[1].id # timeouts[1].id))
        /\ (timeouts # << >> /\ timeouts' = << >> /\ PERSIST' # None =>
              /\ ~HandlesCommand
              /\ idbq' = Append(idbq, SaveRequest(StateAfterLastCommand))
              /\ outbox' = outbox)
        /\ (HandlesCommand /\ Immediate =>
              /\ timeouts' = << >>
              /\ StartsWriteOf(State'))
       ]_vars

\* C32 witness: two commands arrived within one window, the timeout has fired
\* and the only write this worker has started holds the state after the
\* second one.
C32_Witness ==
  /\ Debounced
  /\ Len(appliedLog) = 2
  /\ appliedLog[1].state # appliedLog[2].state
  /\ timeouts = << >>
  /\ lastIdb = "loaded"
  /\ idbq = <<SaveRequest(appliedLog[2].state)>>

\* The listeners of the channel an emit is for, in subscription order, and
\* the place of the first one that throws (0 when none does).
EmitOrder == listeners[lastBus'.port]
FirstThrower ==
  LET T == {i \in 1 .. Len(EmitOrder) : Throws(EmitOrder[i])}
  IN IF T = {} THEN 0 ELSE Min(T)

\* C33: when a subscriber throws during emit(port, payload), the exception
\* leaves emit uncaught, the payload is the last value of the port, the
\* subscribers before the thrower and the thrower have been called with the
\* payload in subscription order, and no later subscriber and no worker
\* receives that emit.
C33_ThrowingSubscriberEndsEmit ==
  [][IsEmit /\ FirstThrower # 0 =>
       /\ fx'[Len(fx')] = ThrowEvent(EmitOrder[FirstThrower])
       /\ last'[lastBus'.port] = Some(lastBus'.payload)
       /\ Invocations(fx') =
            [j \in 1 .. FirstThrower |->
               CbEvent(EmitOrder[j], lastBus'.port, lastBus'.payload)]
       /\ \A i \in 1 .. Len(fx') : fx'[i].k # "post"
       /\ listeners' = listeners
    ]_vars

\* C33 witness: f, t and g listen in that order; the emit has called f and t,
\* t has thrown, and g was not called.
C33_Witness ==
  /\ lastBus.op = "emit"
  /\ listeners["x"] = <<Fn("f", 0), Fn("t", 0), Fn("g", 0)>>
  /\ fx = <<CbEvent(Fn("f", 0), "x", lastBus.payload),
            CbEvent(Fn("t", 0), "x", lastBus.payload),
            ThrowEvent(Fn("t", 0))>>
  /\ last["x"] = Some(lastBus.payload)

\* The scheduler when everything it waits for comes about: the event loop
\* runs the queued jobs, every condition settles, every run invocation
\* resolves or throws and every backoff elapses.
Fairness ==
  /\ WF_vars(Microtask)
  /\ \A s \in Slots :
       /\ WF_vars(\E v \in {"true", "false", "throw"} : WhenSettles(s, v))
       /\ WF_vars(RunResolves(s) \/ RunThrows(s))
       /\ WF_vars(BackoffElapsed(s))
SpecLive == Init /\ [][NextNoReset]_vars /\ Fairness

\* C34: every accepted runTasks call eventually settles and clears the
\* running flag.
C34_CallEventuallySettles ==
  (call.status = "pending") ~> (call.status # "pending" /\ ~running)

\* The ids reached from R along deps.
RECURSIVE Reach(_)
Reach(R) ==
  LET more == {d \in Ids : \E x \in R : HasTask(x) /\ d \in DepsOf(TaskGet(x))}
  IN IF more \subseteq R THEN R ELSE Reach(R \cup more)

FailedInFirstBatch ==
  \E id \in Ids : ended[id].how = "failed" /\ ended[id].batch = 1

\* C35: after a call has rejected because a run failed, a later call in which
\* every run succeeds eventually resolves, with every selected task and all
\* their transitive dependencies in done.
C35_RecoversAfterFailedBatch ==
  (ncalls = 2 /\ call.status = "pending" /\ FailedInFirstBatch)
    ~> (call.status = "resolved" /\ Reach(SelectedIds) \subseteq done)

\* The ids of S that the tasks registered under the ids of R depend on, and
\* the ids of S reached from R along deps.
DepsWithin(R, S) ==
  {d \in S : \E x \in R : HasTask(x) /\ d \in DepsOf(TaskGet(x))}
RECURSIVE ReachWithin(_, _)
ReachWithin(R, S) ==
  LET more == DepsWithin(R, S)
  IN IF more \subseteq R THEN R ELSE ReachWithin(R \cup more, S)
\* id lies on a cycle of deps that stays inside S.
OnCycle(id, S) == id \in S /\ id \in ReachWithin(DepsWithin({id}, S), S)

\* The latest call of the application is an accepted runTasks call: the
\* registry is the one that call has read.
JustCalled == lastApi = "runTasks"

\* No run of the id has started and its execution waits for its dependencies.
NoRunOf(id) ==
  /\ id \notin RunLogIds
  /\ \A s \in Slots : Live(s) /\ ex[s].id = id => ex[s].pc = "deps" /\ ex[s].inv = 0

\* C36 as stated: when the deps relation among the tasks a runTasks call
\* reaches contains a cycle, the call never settles, the flag stays set and
\* no task on the cycle starts run or enters done.  Stated for the time
\* from the call to the next call of the application, while the registry is
\* the one the call has read.
C36_CycleNeverSettles ==
  \A id \in Ids :
    JustCalled /\ OnCycle(id, Reach(SelectedIds)) =>
      call.status = "pending" /\ running /\ NoRunOf(id)

\* C36: when the deps relation among the tasks a runTasks call starts (those
\* it reaches that are neither in done nor in flight) contains a cycle, no
\* task on the cycle ever starts run or enters done; the call never resolves:
\* it stays pending with the flag set, so that no later call is accepted,
\* unless the run of a task off the cycle fails and rejects it.
C36_CycleAmongStartedNeverRuns ==
  \A id \in Ids, n \in 1 .. MaxApi :
    [](JustCalled /\ ncalls = n /\ OnCycle(id, started) =>
         [](/\ NoRunOf(id) /\ id \notin done
            /\ (ncalls = n => call.status \in {"pending", "rejected"})
            /\ (ncalls = n /\ call.status = "pending" => running)
            /\ (ncalls = n /\ call.status = "rejected" =>
                  \E x \in Ids : ended[x].how = "failed" /\ ended[x].batch = n)))

\* C36 witness: a and b depend on each other, both executions wait for the
\* other's in-flight promise, nothing else is pending and a later runTasks
\* call was refused.
C36_Witness ==
  /\ lastApi = "refused" /\ call.status = "pending" /\ NothingPending
  /\ \E s1, s2 \in Slots :
       /\ ex[s1].id = "a" /\ ex[s1].pc = "deps" /\ "b" \in DepsOf(ex[s1].t)
       /\ ex[s2].id = "b" /\ ex[s2].pc = "deps" /\ "a" \in DepsOf(ex[s2].t)
       /\ Ref(s1, ncalls) \in Waiters(s2) /\ Ref(s2, ncalls) \in Waiters(s1)

\* C37: in every state where the running flag is false, no execution is at a
\* condition, in a run invocation or in a backoff.
C37_FlagCoversAllActivity ==
  ~running =>
    \A s \in Slots :
      ex[s].pc \notin {"when", "whenq", "whenport", "run", "backoff"}

\* The id was resolved as a dependency without a task and is still in done.
Unregistered(id) == ended[id].how = "notask" /\ id \in done
IsReset == lastApi' = "resetTasks" /\ napi' # napi

\* C38: an id a runTasks call reaches and under which no task is registered
\* is added to done and leaves no in-flight key; an execution all of whose
\* dependencies were resolved that way goes on to its condition and run; and
\* until resetTasks is called the id stays in done and no execution is
\* started for it, whatever is registered under it afterwards.
C38_MissingDependencyIsSatisfied ==
  /\ [][ncalls' # ncalls =>
          \A id \in started' : ~HasTask(id) =>
            id \in done' /\ cache'[id] = 0 /\ ended'[id].how = "notask"]_vars
  /\ [](\A s \in Slots :
          /\ Live(s) /\ ex[s].pc = "deps"
          /\ \A d \in DepsOf(ex[s].t) : Unregistered(d)
          => /\ ~ex[s].failed /\ ~ex[s].stuck
             /\ \E i \in 1 .. Len(mq) : mq[i].w = Ref(s, ex[s].batch) /\ mq[i].ok)
  /\ [](\A id \in Ids : Unregistered(id) => \A s \in Slots : ex[s].id # id)
  /\ [][\A id \in Ids :
          Unregistered(id) /\ ~IsReset =>
            /\ Unregistered(id)' /\ ended'[id] = ended[id]
            /\ (ncalls' # ncalls => id \notin started')]_vars

\* C38 witness: b was a dependency without a task; a task was registered
\* under b afterwards and a later call that selects b has resolved; the
\* dependent a has run, b has not.
C38_Witness ==
  /\ Unregistered("b") /\ HasTask("b") /\ "b" \in SelectedIds
  /\ ncalls >= 2 /\ call.status = "resolved"
  /\ "a" \in ranOk /\ "b" \notin ranOk

\* C39: whatever resetTasks is called in between, no task has two
\* executions inside its run at the same time.
C39_NoSecondExecution ==
  \A s1, s2 \in Slots :
    ex[s1].pc = "run" /\ ex[s2].pc = "run" /\ ex[s1].id = ex[s2].id => s1 = s2

\* The value the last command handled so far has set at its path.
LastSet == appliedLog[Len(appliedLog)].cmd

\* C40: with backend auto or indexedDB the subprocess posts no state while the
\* persisted record is loading, and a value a command set before the load
\* completed is still at its path after the hydration.
C40_NoRaceWithHydration ==
  /\ [](phase = "loading" =>
          \A i \in 1 .. Len(outbox) : outbox[i].type # "state")
  /\ [][Hydrates /\ appliedLog # << >> =>
          getAtPath(State', LastSet.path) = LastSet.value]_vars
====
